---- MODULE Spec2Model ----
(***************************************************************************)
(* The protocol relay of gemini-live-react (the Deno edge function listed  *)
(* in src/packages/react/README.md, lines 197-525): one relay session,     *)
(* i.e. one client WebSocket (clientSocket), the upstream WebSocket it     *)
(* opens (geminiSocket) and the per-connection flag isSetupComplete.       *)
(* Every socket callback of the source is one action.  The upstream        *)
(* onmessage handler is async: a Blob payload is awaited (event.data       *)
(* .text()), so the handler is split at that await into GeminiMessageBlob  *)
(* (dispatch, suspends) and GeminiBlobRead (the continuation).             *)
(***************************************************************************)
EXTENDS Integers, Sequences, FiniteSets, TLC

\* Bound on the number of messages (client and upstream together) that the
\* two sockets deliver to the relay in one session.
MaxEvents == 3

(***************************************************************************)
(* Values                                                                  *)
(***************************************************************************)

\* JavaScript `a || b` on strings: the empty (or missing) string is falsy.
Or(a, b) == IF a # "" THEN a ELSE b

\* part.inlineData?.mimeType?.startsWith("audio/")
StartsWithAudio(m) == m \in {"audio/pcm;rate=24000", "audio/pcm;rate=16000"}

\* The parsed body of an upstream message (the fields onmessage reads, and
\* toolCall, the id of the function call of a toolCall message, which it does
\* not read).  ok = FALSE: JSON.parse throws.  A missing string field is "".
NoData ==
  [ok |-> TRUE, hasError |-> FALSE, errorMessage |-> "",
   hasSetupComplete |-> FALSE,
   hasUpdate |-> FALSE, newHandle |-> "", resumable |-> FALSE,
   hasContent |-> FALSE, parts |-> <<>>, inputText |-> "", outputText |-> "",
   turnComplete |-> FALSE, toolCall |-> "", reason |-> ""]

\* the close event of the upstream socket, as onclose is given it
CloseEvent(reason) == [NoData EXCEPT !.reason = reason]

TextPart(t) == [text |-> t, mimeType |-> "", data |-> ""]
AudioPart(m, d) == [text |-> "", mimeType |-> m, data |-> d]

\* The upstream messages a session draws from: an unparsable payload, an
\* error payload, the setup acknowledgement, a session-resumption update and
\* a content message (one text part, turn complete).
UpstreamData ==
  { [NoData EXCEPT !.ok = FALSE],
    [NoData EXCEPT !.hasError = TRUE, !.errorMessage = "quota"],
    [NoData EXCEPT !.hasSetupComplete = TRUE],
    [NoData EXCEPT !.hasUpdate = TRUE, !.newHandle = "h1", !.resumable = TRUE],
    [NoData EXCEPT !.hasContent = TRUE, !.parts = <<TextPart("hi")>>,
                   !.turnComplete = TRUE] }

\* Every combination of the fields onmessage reads (a field of an object that
\* is missing is missing too).
AllUpstreamData ==
  { d \in [ok : BOOLEAN, hasError : BOOLEAN, errorMessage : {"", "quota"},
           hasSetupComplete : BOOLEAN,
           hasUpdate : BOOLEAN, newHandle : {"", "h1"}, resumable : BOOLEAN,
           hasContent : BOOLEAN,
           parts : { <<>>, <<TextPart("hi")>>,
                     <<AudioPart("audio/pcm;rate=24000", "AAAA"), TextPart("hi")>>,
                     <<AudioPart("image/png", "PPPP")>> },
           inputText : {"", "in"}, outputText : {"", "out"},
           turnComplete : BOOLEAN, toolCall : {"", "call1"}, reason : {""}] :
      /\ ~d.ok => d = [NoData EXCEPT !.ok = FALSE]
      /\ ~d.hasError => d.errorMessage = ""
      /\ ~d.hasUpdate => d.newHandle = "" /\ ~d.resumable
      /\ ~d.hasContent => /\ d.parts = <<>>
                          /\ d.inputText = "" /\ d.outputText = ""
                          /\ ~d.turnComplete }

\* The parsed body of a client message.  ok = FALSE: JSON.parse throws.
NoClientData ==
  [ok |-> FALSE, type |-> "", data |-> "", mimeType |-> "", text |-> "",
   toolCallId |-> ""]

ClientData ==
  { [NoClientData EXCEPT !.ok = TRUE, !.type = "frame", !.data = "JPEG"],
    [NoClientData EXCEPT !.ok = TRUE, !.type = "audio", !.data = "AAAA"],
    [NoClientData EXCEPT !.ok = TRUE, !.type = "text", !.text = "Hi"],
    [NoClientData EXCEPT !.ok = TRUE, !.type = "tool_result",
                         !.toolCallId = "call1"] }

AllClientData ==
  { d \in [ok : BOOLEAN,
           type : {"frame", "audio", "text", "tool_result", "setup_tools"},
           data : {"", "AAAA"},
           mimeType : {"", "audio/pcm;rate=16000", "audio/webm"},
           text : {"", "Hi"}, toolCallId : {"", "call1"}] :
      /\ d.ok \/ d = [NoClientData EXCEPT !.type = "frame"]
      /\ d.toolCallId # "" => d.type = "tool_result" }

VARIABLES
  clientSocket,     \* readyState of the client socket, as the relay sees it
  geminiSocket,     \* "null", or the readyState of the upstream socket
  isSetupComplete,  \* the per-connection flag
  toGemini,         \* what geminiSocket.send was given, in order
  toClient,         \* what clientSocket.send delivered, in order
  reading,          \* suspended onmessage handlers: Blob bodies being read
  nEvents,          \* messages delivered to the relay so far
  last,             \* history: the handler run that completed last
  toClientSeq,      \* history: for each toClient entry, its upstream message
  http,             \* the request serve was called with, the configured
                    \* credential and the response returned
  conns,            \* two concurrent relay connections (SpecSessions)
  hook              \* the client's connection state machine (SpecClient)

vars == <<clientSocket, geminiSocket, isSetupComplete, toGemini, toClient,
          reading, nEvents, last, toClientSeq, http, conns, hook>>

\* what the callbacks of one relay session neither read nor write, and the
\* request, which they only read
others == <<http, conns, hook>>

relay == <<clientSocket, geminiSocket, isSetupComplete, toGemini, toClient>>


(***************************************************************************)
(* Messages the relay writes                                               *)
(***************************************************************************)

DEFAULT_VOICE == "Zephyr"
DEFAULT_SYSTEM_INSTRUCTION == "You are a helpful AI assistant"

\* geminiSocket.onopen: the setup message
SetupMessage(voiceName, systemInstruction) ==
  [setup |->
    [model |-> "models/gemini-2.5-flash-native-audio-preview-12-2025",
     responseModalities |-> <<"AUDIO">>,
     voiceName |-> voiceName,
     systemInstruction |-> <<[text |-> systemInstruction]>>,
     inputAudioTranscription |-> TRUE,
     outputAudioTranscription |-> TRUE,
     sessionResumption |-> [handle |-> ""],
     contextWindowCompression |-> TRUE]]

RealtimeInput(mimeType, data) ==
  [realtimeInput |-> [mediaChunks |-> <<[mimeType |-> mimeType, data |-> data]>>]]

\* A variant of ClientContent that leaves the turn open.
ClientContent_OpenTurn(text) ==
  [clientContent |->
    [turns |-> <<[role |-> "user", parts |-> <<[text |-> text]>>]>>,
     turnComplete |-> FALSE]]

ClientContent(text) ==
  [clientContent |->
    [turns |-> <<[role |-> "user", parts |-> <<[text |-> text]>>]>>,
     turnComplete |-> TRUE]]

SetupCompleteMsg == [type |-> "setup_complete"]
ErrorMsg(message) == [type |-> "error", message |-> message]
SessionHandleMsg(handle, resumable) ==
  [type |-> "session_handle", handle |-> handle, resumable |-> resumable]
ResponseMsg(text) == [type |-> "response", text |-> text]
AudioMsg(mimeType, data) == [type |-> "audio", mimeType |-> mimeType, data |-> data]
InputTranscriptionMsg(text) == [type |-> "input_transcription", text |-> text]
OutputTranscriptionMsg(text) == [type |-> "output_transcription", text |-> text]
TurnCompleteMsg == [type |-> "turn_complete"]
DisconnectedMsg(reason) == [type |-> "disconnected", reason |-> reason]

(***************************************************************************)
(* The handlers' bodies, as functions of what they read                    *)
(***************************************************************************)

RECURSIVE ForwardParts_Reversed(_)
RECURSIVE ForwardParts(_)

\* (a loop that sends the audio of a part before its text and the last part
\* first)
ForwardParts_Reversed(parts) ==
  IF parts = <<>> THEN <<>>
  ELSE LET part == Head(parts) IN
       ForwardParts_Reversed(Tail(parts))
       \o (IF StartsWithAudio(part.mimeType)
             THEN <<AudioMsg(part.mimeType, part.data)>> ELSE <<>>)
       \o (IF part.text # "" THEN <<ResponseMsg(part.text)>> ELSE <<>>)

\* for (const part of parts): a text part gives a response, an inline audio
\* part gives an audio message
ForwardParts(parts) ==
  IF parts = <<>> THEN <<>>
  ELSE LET part == Head(parts) IN
       (IF part.text # "" THEN <<ResponseMsg(part.text)>> ELSE <<>>)
       \o (IF StartsWithAudio(part.mimeType)
             THEN <<AudioMsg(part.mimeType, part.data)>> ELSE <<>>)
       \o ForwardParts(Tail(parts))

\* (a serverContent branch that marks the setup complete after forwarding)
ForwardServerContent_SetupLast(data, flag) ==
  ForwardParts(data.parts)
  \o (IF data.inputText # "" THEN <<InputTranscriptionMsg(data.inputText)>> ELSE <<>>)
  \o (IF data.outputText # "" THEN <<OutputTranscriptionMsg(data.outputText)>> ELSE <<>>)
  \o (IF data.turnComplete THEN <<TurnCompleteMsg>> ELSE <<>>)
  \o (IF ~flag THEN <<SetupCompleteMsg>> ELSE <<>>)

\* geminiSocket.onmessage, if (data.serverContent) { ... }
ForwardServerContent(data, flag) ==
  (IF ~flag THEN <<SetupCompleteMsg>> ELSE <<>>)
  \o ForwardParts(data.parts)
  \o (IF data.inputText # "" THEN <<InputTranscriptionMsg(data.inputText)>> ELSE <<>>)
  \o (IF data.outputText # "" THEN <<OutputTranscriptionMsg(data.outputText)>> ELSE <<>>)
  \o (IF data.turnComplete THEN <<TurnCompleteMsg>> ELSE <<>>)

\* A variant of HandleServerMessage that forwards a session handle only once
\* setup is complete.
HandleServerMessage_UpdateAfterSetup(data, flag) ==
  IF data.hasSetupComplete
    THEN [flag |-> TRUE, out |-> <<SetupCompleteMsg>>]
  ELSE IF data.hasUpdate
    THEN [flag |-> flag,
          out |-> IF data.newHandle # "" /\ flag
                    THEN <<SessionHandleMsg(data.newHandle, data.resumable)>>
                    ELSE <<>>]
  ELSE IF data.hasContent
    THEN [flag |-> TRUE, out |-> ForwardServerContent(data, flag)]
  ELSE [flag |-> flag, out |-> <<>>]

\* geminiSocket.onmessage from the setup-complete check on: the new value of
\* isSetupComplete and the clientSocket.send calls, in order.
HandleServerMessage(data, flag) ==
  IF data.hasSetupComplete
    THEN [flag |-> TRUE, out |-> <<SetupCompleteMsg>>]
  ELSE IF data.hasUpdate
    THEN [flag |-> flag,
          out |-> IF data.newHandle # ""
                    THEN <<SessionHandleMsg(data.newHandle, data.resumable)>>
                    ELSE <<>>]
  ELSE IF data.hasContent
    THEN [flag |-> TRUE, out |-> ForwardServerContent(data, flag)]
  ELSE [flag |-> flag, out |-> <<>>]

\* A variant of HandleData whose error branch lacks the return.
HandleData_ErrorFallsThrough(data, flag) ==
  IF data.hasError
    THEN LET r == HandleServerMessage(data, flag) IN
         [flag |-> r.flag,
          out |-> <<ErrorMsg(Or(data.errorMessage, "Gemini API error"))>> \o r.out]
    ELSE HandleServerMessage(data, flag)

\* geminiSocket.onmessage from JSON.parse's result on
HandleData(data, flag) ==
  IF data.hasError
    THEN [flag |-> flag, out |-> <<ErrorMsg(Or(data.errorMessage, "Gemini API error"))>>]
    ELSE HandleServerMessage(data, flag)

\* A variant of GeminiOnMessage that reports an unparsable payload to the
\* client as an error.
GeminiOnMessage_ReportsBadPayload(data, flag) ==
  IF ~data.ok THEN [flag |-> flag, out |-> <<ErrorMsg("Invalid response")>>]
  ELSE HandleData(data, flag)

\* geminiSocket.onmessage once messageText is known: JSON.parse throws into
\* the catch, which only logs.
GeminiOnMessage(data, flag) ==
  IF ~data.ok THEN [flag |-> flag, out |-> <<>>]
  ELSE HandleData(data, flag)

\* (an onmessage without the readyState guard)
ClientOnMessage_NoReadyStateCheck(data, gemini, flag) ==
  IF ~flag THEN <<>>
  ELSE IF ~data.ok THEN <<>>
  ELSE IF data.type = "frame" THEN <<RealtimeInput("image/jpeg", data.data)>>
  ELSE IF data.type = "audio"
    THEN <<RealtimeInput(Or(data.mimeType, "audio/pcm;rate=16000"), data.data)>>
  ELSE IF data.type = "text" THEN <<ClientContent(data.text)>>
  ELSE <<>>

\* (an onmessage whose last branch is an else: any other type is sent as
\* text)
ClientOnMessage_OtherTypeAsText(data, gemini, flag) ==
  IF gemini # "open" THEN <<>>
  ELSE IF ~flag THEN <<>>
  ELSE IF ~data.ok THEN <<>>
  ELSE IF data.type = "frame" THEN <<RealtimeInput("image/jpeg", data.data)>>
  ELSE IF data.type = "audio"
    THEN <<RealtimeInput(Or(data.mimeType, "audio/pcm;rate=16000"), data.data)>>
  ELSE <<ClientContent(data.text)>>

\* A variant of ClientOnMessage without the isSetupComplete check.
ClientOnMessage_NoSetupCheck(data, gemini, flag) ==
  IF gemini # "open" THEN <<>>
  ELSE IF ~data.ok THEN <<>>
  ELSE IF data.type = "frame" THEN <<RealtimeInput("image/jpeg", data.data)>>
  ELSE IF data.type = "audio"
    THEN <<RealtimeInput(Or(data.mimeType, "audio/pcm;rate=16000"), data.data)>>
  ELSE IF data.type = "text" THEN <<ClientContent(data.text)>>
  ELSE <<>>

\* A variant of ClientOnMessage whose frame branch falls into the audio
\* branch (if instead of else if): a frame is sent twice.
ClientOnMessage_FrameTwice(data, gemini, flag) ==
  IF gemini # "open" THEN <<>>
  ELSE IF ~flag THEN <<>>
  ELSE IF ~data.ok THEN <<>>
  ELSE IF data.type = "frame"
    THEN <<RealtimeInput("image/jpeg", data.data),
           RealtimeInput(Or(data.mimeType, "audio/pcm;rate=16000"), data.data)>>
  ELSE IF data.type = "audio"
    THEN <<RealtimeInput(Or(data.mimeType, "audio/pcm;rate=16000"), data.data)>>
  ELSE IF data.type = "text" THEN <<ClientContent(data.text)>>
  ELSE <<>>

\* (an onmessage whose audio branch ignores the declared mime type)
ClientOnMessage_DefaultMime(data, gemini, flag) ==
  IF gemini # "open" THEN <<>>
  ELSE IF ~flag THEN <<>>
  ELSE IF ~data.ok THEN <<>>
  ELSE IF data.type = "frame" THEN <<RealtimeInput("image/jpeg", data.data)>>
  ELSE IF data.type = "audio"
    THEN <<RealtimeInput("audio/pcm;rate=16000", data.data)>>
  ELSE IF data.type = "text" THEN <<ClientContent(data.text)>>
  ELSE <<>>

\* clientSocket.onmessage: the geminiSocket.send calls.
ClientOnMessage(data, gemini, flag) ==
  IF gemini # "open" THEN <<>>
  ELSE IF ~flag THEN <<>>
  ELSE IF ~data.ok THEN <<>>
  ELSE IF data.type = "frame" THEN <<RealtimeInput("image/jpeg", data.data)>>
  ELSE IF data.type = "audio"
    THEN <<RealtimeInput(Or(data.mimeType, "audio/pcm;rate=16000"), data.data)>>
  ELSE IF data.type = "text" THEN <<ClientContent(data.text)>>
  ELSE <<>>

\* geminiSocket.close()
Close(gemini) ==
  IF gemini \in {"connecting", "open"} THEN "closing" ELSE gemini

\* clientSocket.send(...) of several messages in a row: delivered while the
\* client socket is OPEN; otherwise send throws and the handler is left.
ClientSend(out) ==
  IF clientSocket = "open" THEN toClient \o out ELSE toClient

SeqOf(out, seq) == [i \in 1..Len(out) |-> seq]
ClientSendSeq(out, seq) ==
  IF clientSocket = "open" THEN toClientSeq \o SeqOf(out, seq) ELSE toClientSeq

SetupEmitted == \E i \in 1..Len(toClient) : toClient[i] = SetupCompleteMsg

Ran(ev, data, seq) == [ev |-> ev, data |-> data, seq |-> seq]

(***************************************************************************)
(* serve: the request, the checks before the upgrade                       *)
(***************************************************************************)

\* upgradeHeader.toLowerCase()
ToLowerCase(h) == IF h \in {"WebSocket", "websocket"} THEN "websocket" ELSE h

\* (a serve that ignores the voice parameter)
VoiceName_AlwaysDefault(req) == DEFAULT_VOICE

\* url.searchParams.get("voice") || DEFAULT_VOICE
VoiceName(req) == Or(req.voice, DEFAULT_VOICE)

\* const systemInstruction = DEFAULT_SYSTEM_INSTRUCTION
SystemInstruction(req) == DEFAULT_SYSTEM_INSTRUCTION

\* A request: its method, its upgrade header and its query parameters ("" for
\* a missing one); handle is the session handle a reconnecting client
\* supplies.
Requests ==
  [method : {"GET", "OPTIONS"}, upgrade : {"", "websocket", "WebSocket", "h2c"},
   voice : {"", "Kore"}, session_id : {"", "abc123"},
   system_instruction : {"", "Be brief"}, handle : {"", "h1"}]

PlainRequest ==
  [method |-> "GET", upgrade |-> "websocket", voice |-> "", session_id |-> "",
   system_instruction |-> "", handle |-> ""]

Pending == [status |-> 0, cors |-> FALSE, body |-> ""]
Response(status, body) == [status |-> status, cors |-> TRUE, body |-> body]

\* (a serve that checks the credential before the upgrade header)
Checks_KeyFirst(req, apiKey) ==
  IF req.method = "OPTIONS" THEN Response(200, "")
  ELSE IF ~apiKey THEN Response(500, "API key not configured")
  ELSE IF ToLowerCase(req.upgrade) # "websocket"
    THEN Response(426, "Expected WebSocket upgrade")
  ELSE Pending

\* what serve returns before it would upgrade, or Pending when it goes on to
\* Deno.upgradeWebSocket
Checks(req, apiKey) ==
  IF req.method = "OPTIONS" THEN Response(200, "")
  ELSE IF ToLowerCase(req.upgrade) # "websocket"
    THEN Response(426, "Expected WebSocket upgrade")
  ELSE IF ~apiKey THEN Response(500, "API key not configured")
  ELSE Pending

\* the handshake response of Deno.upgradeWebSocket
Switching == [status |-> 101, cors |-> FALSE, body |-> ""]

NoConns == <<>>
NoHook == <<>>

(***************************************************************************)
(* Initial state: Deno.upgradeWebSocket has returned the client socket     *)
(***************************************************************************)
Init ==
  /\ clientSocket = "connecting"
  /\ geminiSocket = "null"
  /\ isSetupComplete = FALSE
  /\ toGemini = <<>>
  /\ toClient = <<>>
  /\ reading = {}
  /\ nEvents = 0
  /\ last = [ev |-> "upgrade", data |-> NoData, seq |-> 0]
  /\ toClientSeq = <<>>
  /\ http = [request |-> PlainRequest, apiKey |-> TRUE, response |-> Switching]
  /\ conns = NoConns
  /\ hook = NoHook

(***************************************************************************)
(* Client socket callbacks                                                 *)
(***************************************************************************)
ClientOnOpen ==
  /\ clientSocket = "connecting"
  /\ clientSocket' = "open"
  /\ geminiSocket' = "connecting"
  /\ last' = Ran("client_open", NoData, 0)
  /\ UNCHANGED <<isSetupComplete, toGemini, toClient, reading, nEvents,
                 toClientSeq>>
  /\ UNCHANGED others

ClientMessage(D) ==
  /\ clientSocket = "open"
  /\ nEvents < MaxEvents
  /\ \E data \in D :
       /\ toGemini' = toGemini \o ClientOnMessage(data, geminiSocket, isSetupComplete)
       /\ last' = Ran("client_message", data, nEvents + 1)
  /\ nEvents' = nEvents + 1
  /\ UNCHANGED <<clientSocket, geminiSocket, isSetupComplete, toClient,
                 reading, toClientSeq>>
  /\ UNCHANGED others

\* the error event: the socket is CLOSED, its close event follows
ClientOnError ==
  /\ clientSocket \in {"connecting", "open"}
  /\ clientSocket' = "failed"
  /\ geminiSocket' = (IF geminiSocket # "null" THEN Close(geminiSocket) ELSE geminiSocket)
  /\ last' = Ran("client_error", NoData, 0)
  /\ UNCHANGED <<isSetupComplete, toGemini, toClient, reading, nEvents,
                 toClientSeq>>
  /\ UNCHANGED others

\* A variant of ClientOnClose that leaves the upstream socket alone.
ClientOnClose_LeavesUpstream ==
  /\ clientSocket \in {"open", "failed"}
  /\ clientSocket' = "closed"
  /\ last' = Ran("client_close", NoData, 0)
  /\ UNCHANGED <<geminiSocket, isSetupComplete, toGemini, toClient, reading,
                 nEvents, toClientSeq>>
  /\ UNCHANGED others

ClientOnClose ==
  /\ clientSocket \in {"open", "failed"}
  /\ clientSocket' = "closed"
  /\ geminiSocket' = (IF geminiSocket # "null" THEN Close(geminiSocket) ELSE geminiSocket)
  /\ last' = Ran("client_close", NoData, 0)
  /\ UNCHANGED <<isSetupComplete, toGemini, toClient, reading, nEvents,
                 toClientSeq>>
  /\ UNCHANGED others

(***************************************************************************)
(* Upstream socket callbacks                                               *)
(***************************************************************************)
\* (an onopen that does not send the setup message)
GeminiOnOpen_NoSetup ==
  /\ geminiSocket = "connecting"
  /\ geminiSocket' = "open"
  /\ last' = Ran("gemini_open", NoData, 0)
  /\ UNCHANGED <<clientSocket, isSetupComplete, toGemini, toClient, reading,
                 nEvents, toClientSeq>>
  /\ UNCHANGED others

GeminiOnOpen ==
  /\ geminiSocket = "connecting"
  /\ geminiSocket' = "open"
  /\ toGemini' = Append(toGemini, SetupMessage(VoiceName(http.request),
                                                SystemInstruction(http.request)))
  /\ last' = Ran("gemini_open", NoData, 0)
  /\ UNCHANGED <<clientSocket, isSetupComplete, toClient, reading, nEvents,
                 toClientSeq>>
  /\ UNCHANGED others

\* the part of onmessage after messageText is known
RunOnMessage(data, seq) ==
  LET r == GeminiOnMessage(data, isSetupComplete) IN
  /\ isSetupComplete' = r.flag
  /\ toClient' = ClientSend(r.out)
  /\ toClientSeq' = ClientSendSeq(r.out, seq)
  /\ last' = Ran("gemini_message", data, seq)

\* a message whose event.data is a string: the handler runs to its end
GeminiMessageText(D) ==
  /\ geminiSocket = "open"
  /\ nEvents < MaxEvents
  /\ \E data \in D : RunOnMessage(data, nEvents + 1)
  /\ nEvents' = nEvents + 1
  /\ UNCHANGED <<clientSocket, geminiSocket, toGemini, reading>>
  /\ UNCHANGED others

\* a message whose event.data is a Blob: the handler suspends at
\* await event.data.text()
GeminiMessageBlob(D) ==
  /\ geminiSocket = "open"
  /\ nEvents < MaxEvents
  /\ \E data \in D :
       reading' = reading \cup {[seq |-> nEvents + 1, data |-> data]}
  /\ nEvents' = nEvents + 1
  /\ UNCHANGED <<clientSocket, geminiSocket, isSetupComplete, toGemini,
                 toClient, last, toClientSeq>>
  /\ UNCHANGED others

\* the text of some Blob is there: its handler continues
GeminiBlobRead ==
  /\ \E r \in reading :
       /\ RunOnMessage(r.data, r.seq)
       /\ reading' = reading \ {r}
  /\ UNCHANGED <<clientSocket, geminiSocket, toGemini, nEvents>>
  /\ UNCHANGED others

\* the error event: the socket is CLOSED, its close event follows
GeminiOnError ==
  /\ geminiSocket \in {"connecting", "open"}
  /\ geminiSocket' = "failed"
  /\ toClient' = ClientSend(<<ErrorMsg("Connection to AI failed")>>)
  /\ toClientSeq' = ClientSendSeq(<<ErrorMsg("Connection to AI failed")>>, 0)
  /\ last' = Ran("gemini_error", NoData, 0)
  /\ UNCHANGED <<clientSocket, isSetupComplete, toGemini, reading, nEvents>>
  /\ UNCHANGED others

\* (an onclose that always gives the default reason)
GeminiOnClose_DefaultReason ==
  /\ geminiSocket \in {"open", "closing", "failed"}
  /\ geminiSocket' = "closed"
  /\ \E reason \in {"", "going away"} :
       LET out == <<DisconnectedMsg("Connection closed")>> IN
       /\ toClient' = ClientSend(out)
       /\ toClientSeq' = ClientSendSeq(out, 0)
       /\ last' = Ran("gemini_close", CloseEvent(reason), 0)
  /\ UNCHANGED <<clientSocket, isSetupComplete, toGemini, reading, nEvents>>
  /\ UNCHANGED others

GeminiOnClose ==
  /\ geminiSocket \in {"open", "closing", "failed"}
  /\ geminiSocket' = "closed"
  /\ \E reason \in {"", "going away"} :
       LET out == <<DisconnectedMsg(Or(reason, "Connection closed"))>> IN
       /\ toClient' = ClientSend(out)
       /\ toClientSeq' = ClientSendSeq(out, 0)
       /\ last' = Ran("gemini_close", CloseEvent(reason), 0)
  /\ UNCHANGED <<clientSocket, isSetupComplete, toGemini, reading, nEvents>>
  /\ UNCHANGED others

Next ==
  \/ ClientOnOpen
  \/ ClientMessage(ClientData)
  \/ ClientOnError
  \/ ClientOnClose
  \/ GeminiOnOpen
  \/ GeminiMessageText(UpstreamData)
  \/ GeminiMessageBlob(UpstreamData)
  \/ GeminiBlobRead
  \/ GeminiOnError
  \/ GeminiOnClose

Spec == Init /\ [][Next]_vars

(***************************************************************************)
(* serve, from the request on: any request, the credential configured or   *)
(* not; then the session's first callbacks                                 *)
(***************************************************************************)
InitServe ==
  /\ clientSocket = "none"
  /\ geminiSocket = "null"
  /\ isSetupComplete = FALSE
  /\ toGemini = <<>>
  /\ toClient = <<>>
  /\ reading = {}
  /\ nEvents = 0
  /\ last = [ev |-> "request", data |-> NoData, seq |-> 0]
  /\ toClientSeq = <<>>
  /\ http \in [request : Requests, apiKey : BOOLEAN, response : {Pending}]
  /\ conns = NoConns
  /\ hook = NoHook

\* The handler of serve. Deno.upgradeWebSocket either returns the client
\* socket and the handshake response or throws, which the catch answers.
Serve ==
  /\ http.response = Pending
  /\ \E upgraded \in BOOLEAN :
       LET c == Checks(http.request, http.apiKey) IN
       /\ http' = [http EXCEPT !.response =
                     IF c # Pending THEN c
                     ELSE IF upgraded THEN Switching
                     ELSE Response(500, "WebSocket upgrade failed")]
       /\ clientSocket' = IF c = Pending /\ upgraded THEN "connecting"
                          ELSE clientSocket
  /\ last' = Ran("serve", NoData, 0)
  /\ UNCHANGED <<geminiSocket, isSetupComplete, toGemini, toClient, reading,
                 nEvents, toClientSeq, conns, hook>>

NextServe ==
  \/ Serve
  \/ ClientOnOpen
  \/ GeminiOnOpen
  \/ ClientOnClose
  \/ GeminiOnClose

SpecServe == InitServe /\ [][NextServe]_vars

(***************************************************************************)
(* The two onmessage handlers as functions: a session with both sockets up *)
(* (before or after setup completion, the upstream open or already closed) *)
(* that receives one more message, drawn from every combination of the     *)
(* fields the handlers read.                                               *)
(***************************************************************************)
InitTranslate ==
  /\ clientSocket = "open"
  /\ geminiSocket \in {"open", "closed"}
  /\ isSetupComplete \in BOOLEAN
  /\ toGemini = <<SetupMessage(DEFAULT_VOICE, DEFAULT_SYSTEM_INSTRUCTION)>>
  /\ toClient = (IF isSetupComplete THEN <<SetupCompleteMsg>> ELSE <<>>)
                 \o (IF geminiSocket = "closed"
                       THEN <<DisconnectedMsg("Connection closed")>> ELSE <<>>)
  /\ toClientSeq = [i \in 1..Len(toClient) |-> IF toClient[i] = SetupCompleteMsg THEN 1 ELSE 0]
  /\ reading = {}
  /\ nEvents = MaxEvents - 1
  /\ http = [request |-> PlainRequest, apiKey |-> TRUE, response |-> Switching]
  /\ conns = NoConns
  /\ hook = NoHook
  /\ last = (IF geminiSocket = "closed" THEN Ran("gemini_close", CloseEvent(""), 0)
             ELSE IF isSetupComplete
               THEN Ran("gemini_message", [NoData EXCEPT !.hasSetupComplete = TRUE], 1)
             ELSE Ran("gemini_open", NoData, 0))

NextTranslate ==
  \/ ClientMessage(AllClientData)
  \/ GeminiMessageText(AllUpstreamData)

SpecTranslate == InitTranslate /\ [][NextTranslate]_vars


(***************************************************************************)
(* Properties                                                              *)
(***************************************************************************)

\* the step in which clientSocket.onmessage ran
ClientStep == last' # last /\ last'.ev = "client_message"

\* the step in which geminiSocket.onmessage ran to its end
GeminiStep == last' # last /\ last'.ev = "gemini_message"

\* What the specification prescribes upstream for a client message: a frame
\* is one realtime-media chunk of the image type, audio one chunk of the
\* declared type (audio/pcm;rate=16000 by default), text one completed user
\* turn.
TranslationOf(d) ==
  IF d.type = "frame"
    THEN [realtimeInput |->
           [mediaChunks |-> <<[mimeType |-> "image/jpeg", data |-> d.data]>>]]
  ELSE IF d.type = "audio"
    THEN [realtimeInput |->
           [mediaChunks |-> <<[mimeType |-> (IF d.mimeType = ""
                                               THEN "audio/pcm;rate=16000"
                                               ELSE d.mimeType),
                               data |-> d.data]>>]]
  ELSE [clientContent |->
         [turns |-> <<[role |-> "user", parts |-> <<[text |-> d.text]>>]>>,
          turnComplete |-> TRUE]]

Forwardable(d) == d.ok /\ d.type \in {"frame", "audio", "text"}

\* C1: the relay sends nothing upstream for a client message that arrives
\* before it has emitted setup_complete to the client, and every upstream
\* send other than the setup message is made while handling a client message
\* that arrived after setup_complete was emitted and is the translation of
\* that very message: a message dropped before setup is never sent later.
C1_NoForwardBeforeSetup ==
  [][ /\ (ClientStep /\ ~SetupEmitted) => toGemini' = toGemini
      /\ (toGemini' # toGemini /\ last'.ev # "gemini_open")
           => /\ ClientStep
              /\ SetupEmitted
              /\ Forwardable(last'.data)
              /\ toGemini' = Append(toGemini, TranslationOf(last'.data)) ]_vars

\* C1 witness: a text message arrived on an open upstream before
\* setup_complete was emitted and only the setup message has gone upstream.
C1_Witness ==
  /\ last.ev = "client_message"
  /\ last.data.type = "text"
  /\ geminiSocket = "open"
  /\ ~SetupEmitted
  /\ Len(toGemini) = 1

\* C2: in a session the relay emits setup_complete to the client at most
\* once, whatever the order and number of acknowledgements and content
\* messages from the upstream.
C2_SetupCompleteOnce ==
  Cardinality({i \in 1..Len(toClient) : toClient[i] = SetupCompleteMsg}) <= 1

\* C3: once the upstream socket has closed, the client socket is not left
\* open (the relay closes it in the upstream's close handler).
C3_UpstreamCloseClosesClient ==
  geminiSocket = "closed" => clientSocket # "open"

\* C4: once the client socket has reported an error or closed, an upstream
\* socket that was created is closing or closed: no upstream connection
\* outlives its client connection.
C4_ClientGoneClosesUpstream ==
  clientSocket \in {"failed", "closed"}
    => geminiSocket \in {"null", "closing", "failed", "closed"}

\* C4 witness: the client closed while the upstream was up, and the upstream
\* is being closed.
C4_Witness ==
  /\ last.ev = "client_close"
  /\ clientSocket = "closed"
  /\ geminiSocket = "closing"
  /\ Len(toGemini) >= 1

\* C5: handling an upstream message that cannot be parsed sends nothing to
\* either socket, closes neither and leaves isSetupComplete as it was, so
\* what the handlers read afterwards is what they would have read without it.
C5_BadPayloadDropped ==
  [][ (GeminiStep /\ ~last'.data.ok) => UNCHANGED relay ]_vars

\* C5 witness: an unparsable upstream message was handled in a session that
\* had completed setup, with both sockets still open.
C5_Witness ==
  /\ last.ev = "gemini_message"
  /\ ~last.data.ok
  /\ isSetupComplete
  /\ clientSocket = "open"
  /\ geminiSocket = "open"

\* C6: client messages translated from upstream messages are sent in the
\* order the upstream messages arrived.
C6_UpstreamOrderKept ==
  \A i, j \in 1..Len(toClientSeq) :
    (i < j /\ toClientSeq[i] > 0 /\ toClientSeq[j] > 0)
      => toClientSeq[i] <= toClientSeq[j]

\* C7: after setup completion and with the upstream open, a client message
\* of type frame, audio or text appends exactly one message, its
\* translation, to what has been sent upstream; what was sent before is
\* never reordered or taken back.
C7_OneSendPerClientMessage ==
  [][ /\ (ClientStep /\ Forwardable(last'.data)
            /\ isSetupComplete /\ geminiSocket = "open")
           => toGemini' = Append(toGemini, TranslationOf(last'.data))
      /\ Len(toGemini') >= Len(toGemini)
      /\ SubSeq(toGemini', 1, Len(toGemini)) = toGemini ]_vars

\* C7 witness: a frame and then a text message went upstream, in that order.
C7_Witness ==
  /\ Len(toGemini) = 3
  /\ toGemini[2] = TranslationOf([ok |-> TRUE, type |-> "frame", data |-> "JPEG",
                                  mimeType |-> "", text |-> ""])
  /\ toGemini[3] = TranslationOf([ok |-> TRUE, type |-> "text", data |-> "",
                                  mimeType |-> "", text |-> "Hi"])

\* C8: a client text message received after setup completion with the
\* upstream open gives exactly one upstream message: client content with a
\* single turn of role user, one part holding the text, turnComplete true.
C8_TextIsCompletedUserTurn ==
  [][ (ClientStep /\ last'.data.ok /\ last'.data.type = "text"
         /\ isSetupComplete /\ geminiSocket = "open")
        => toGemini' = Append(toGemini,
             [clientContent |->
               [turns |-> <<[role |-> "user",
                             parts |-> <<[text |-> last'.data.text]>>]>>,
                turnComplete |-> TRUE]]) ]_vars

\* C8 witness: the text "Hi" was forwarded as a completed user turn.
C8_Witness ==
  /\ last.ev = "client_message"
  /\ last.data.type = "text"
  /\ last.data.text = "Hi"
  /\ Len(toGemini) = 2
  /\ toGemini[2].clientContent.turns[1].parts = <<[text |-> "Hi"]>>

\* C9: an upstream message with an error payload, handled while the client
\* socket is open, sends the client exactly one error message (the upstream
\* error message, or "Gemini API error"), nothing else of that message, and
\* leaves both sockets, isSetupComplete and the upstream output as they were.
C9_ErrorForwardedOnce ==
  [][ (GeminiStep /\ last'.data.ok /\ last'.data.hasError /\ clientSocket = "open")
        => /\ toClient' = Append(toClient,
                [type |-> "error",
                 message |-> IF last'.data.errorMessage = ""
                               THEN "Gemini API error"
                               ELSE last'.data.errorMessage])
           /\ UNCHANGED <<clientSocket, geminiSocket, isSetupComplete, toGemini>> ]_vars

\* C9 witness: an error payload without a message, in a message that also
\* carries content, was answered with the default error text, before setup.
C9_Witness ==
  /\ last.ev = "gemini_message"
  /\ last.data.hasError
  /\ last.data.errorMessage = ""
  /\ last.data.hasContent
  /\ ~isSetupComplete
  /\ toClient = <<[type |-> "error", message |-> "Gemini API error"]>>

\* a message that is a session-resumption update
IsUpdate(d) == d.ok /\ ~d.hasError /\ ~d.hasSetupComplete /\ d.hasUpdate

\* C10, as stated: every session-resumption update, handled while the client
\* socket is open, sends the client exactly one session_handle message with
\* the update's handle and resumable flag, and does not touch isSetupComplete.
C10_EveryUpdateGivesHandle ==
  [][ (GeminiStep /\ IsUpdate(last'.data) /\ clientSocket = "open")
        => /\ toClient' = Append(toClient,
                [type |-> "session_handle", handle |-> last'.data.newHandle,
                 resumable |-> last'.data.resumable])
           /\ isSetupComplete' = isSetupComplete ]_vars

\* C10, amended: a session-resumption update that carries a handle, handled
\* while the client socket is open, sends exactly one session_handle message
\* with that handle and the resumable flag; an update without a handle sends
\* nothing; in both cases whether or not setup completion has been observed,
\* and isSetupComplete stays as it was.
C10_UpdateWithHandleGivesHandle ==
  [][ (GeminiStep /\ IsUpdate(last'.data) /\ clientSocket = "open")
        => /\ last'.data.newHandle # ""
                => toClient' = Append(toClient,
                     [type |-> "session_handle", handle |-> last'.data.newHandle,
                      resumable |-> last'.data.resumable])
           /\ last'.data.newHandle = "" => toClient' = toClient
           /\ isSetupComplete' = isSetupComplete ]_vars

\* C10 witness: before setup completion an update with handle h1 was passed
\* on as one session_handle message.
C10_Witness ==
  /\ last.ev = "gemini_message"
  /\ IsUpdate(last.data)
  /\ ~isSetupComplete
  /\ toClient = <<[type |-> "session_handle", handle |-> "h1", resumable |-> TRUE]>>

(***************************************************************************)
(* The setup message                                                       *)
(***************************************************************************)

IsSetup(m) == "setup" \in DOMAIN m

\* C11: the setup message is what the relay sends first on the upstream
\* socket, it is sent when that socket opens (nothing is sent on a socket
\* that has not opened, and an open socket has been sent it), and it is sent
\* once: no later message on the socket is a setup message.
C11_SetupOnceWhenUpstreamOpens ==
  /\ geminiSocket \in {"null", "connecting"} => toGemini = <<>>
  /\ geminiSocket = "open" => toGemini # <<>>
  /\ toGemini # <<>>
       => /\ toGemini[1] = SetupMessage(VoiceName(http.request),
                                        SystemInstruction(http.request))
          /\ \A i \in 2..Len(toGemini) : ~IsSetup(toGemini[i])

\* C11 witness: the upstream opened, setup completed and a client message was
\* forwarded after the setup message.
C11_Witness ==
  /\ Len(toGemini) >= 2
  /\ IsSetup(toGemini[1])
  /\ last.ev = "client_message"

(***************************************************************************)
(* serve: the handle of a reconnecting client, the rejected requests       *)
(***************************************************************************)

\* C13: when the request of a (re)connecting client supplies a session
\* handle, the setup message the relay sends upstream for that connection
\* carries the handle in its sessionResumption.
C13_SetupCarriesHandle ==
  (http.request.handle # "" /\ toGemini # <<>>)
    => toGemini[1].setup.sessionResumption.handle = http.request.handle

IsUpgrade(req) == ToLowerCase(req.upgrade) = "websocket"
Answered == http.response # Pending
NoSession == clientSocket = "none" /\ geminiSocket = "null" /\ toGemini = <<>>

\* C16 as stated: every request that is not a WebSocket upgrade is answered
\* 426, every (upgrade) request while the credential is missing is answered
\* 500, both with the cross-origin headers and without a session.
C16_RejectedWith426Or500 ==
  Answered =>
    /\ ~IsUpgrade(http.request)
         => http.response.status = 426 /\ http.response.cors /\ NoSession
    /\ (IsUpgrade(http.request) /\ ~http.apiKey)
         => http.response.status = 500 /\ http.response.cors /\ NoSession

\* C16, amended: a preflight (OPTIONS) request is answered 200 whatever its
\* upgrade header and whatever the credential; any other request that is not
\* a WebSocket upgrade is answered 426, the credential configured or not; a
\* WebSocket upgrade request other than OPTIONS is answered 500 when the
\* credential is missing. All three answers carry the cross-origin headers,
\* and in none of the three cases does the relay create a client socket or
\* an upstream connection.
C16_RejectedBeforeUpgrade ==
  Answered =>
    /\ http.request.method = "OPTIONS"
         => http.response.status = 200 /\ http.response.cors /\ NoSession
    /\ (http.request.method # "OPTIONS" /\ ~IsUpgrade(http.request))
         => http.response.status = 426 /\ http.response.cors /\ NoSession
    /\ (http.request.method # "OPTIONS" /\ IsUpgrade(http.request)
          /\ ~http.apiKey)
         => http.response.status = 500 /\ http.response.cors /\ NoSession

\* C16 witness: a GET without upgrade header, the credential missing as
\* well, has been answered 426.
C16_Witness ==
  /\ Answered
  /\ http.request.method = "GET"
  /\ http.request.upgrade = ""
  /\ ~http.apiKey
  /\ http.response = Response(426, "Expected WebSocket upgrade")

(***************************************************************************)
(* Tool calls                                                              *)
(***************************************************************************)

\* an upstream message that is a tool call, a client message that is the
\* result of one
IsToolCall(d) ==
  d.ok /\ d.toolCall # "" /\ ~d.hasError /\ ~d.hasSetupComplete /\ ~d.hasUpdate
       /\ ~d.hasContent
IsToolResult(d) == d.ok /\ d.type = "tool_result" /\ d.toolCallId # ""

\* C12: after setup, with both sockets open, a tool call from the upstream
\* makes the relay send the client one tool_call message with the call's
\* id, and a tool_result from the client makes the relay send the upstream
\* one tool response with the same id.
C12_ToolCallsPassThrough ==
  [][ /\ (GeminiStep /\ IsToolCall(last'.data) /\ isSetupComplete
            /\ clientSocket = "open")
        => /\ Len(toClient') = Len(toClient) + 1
           /\ toClient'[Len(toClient')].type = "tool_call"
           /\ toClient'[Len(toClient')].toolCallId = last'.data.toolCall
      /\ (ClientStep /\ IsToolResult(last'.data) /\ isSetupComplete
            /\ geminiSocket = "open")
        => /\ Len(toGemini') = Len(toGemini) + 1
           /\ "toolResponse" \in DOMAIN toGemini'[Len(toGemini')]
           /\ toGemini'[Len(toGemini')].toolResponse.id = last'.data.toolCallId
    ]_vars

(***************************************************************************)
(* Two concurrent connections.  serve runs once per request; clientSocket, *)
(* geminiSocket and isSetupComplete are declared inside the handler, so    *)
(* each connection has its own.  conns holds, per connection c, the        *)
(* readyState of its client socket, its isSetupComplete, its geminiSocket  *)
(* (0 for null, else an index into sockets) and what its client was sent;  *)
(* sockets are the upstream WebSockets created, each with the connection   *)
(* whose onopen created it.  Every message sent is kept with the           *)
(* connection whose callback sent it.                                      *)
(***************************************************************************)

\* Bound on the messages the sockets of both connections deliver.
MaxSessionEvents == 2

Conn == {1, 2}

\* (an isSetupComplete declared at module level: one flag for all calls)
FlagOf_Shared(c) == 1

\* the isSetupComplete a callback of connection c refers to: the one declared
\* in its own call of the handler
FlagOf(c) == c

Tagged(c, out) == [i \in 1..Len(out) |-> [from |-> c, msg |-> out[i]]]

single == <<clientSocket, geminiSocket, isSetupComplete, toGemini, toClient,
            reading, nEvents, last, toClientSeq, http, hook>>

InitSessions ==
  /\ clientSocket = "none"
  /\ geminiSocket = "null"
  /\ isSetupComplete = FALSE
  /\ toGemini = <<>>
  /\ toClient = <<>>
  /\ reading = {}
  /\ nEvents = 0
  /\ last = [ev |-> "upgrade", data |-> NoData, seq |-> 0]
  /\ toClientSeq = <<>>
  /\ http = [request |-> PlainRequest, apiKey |-> TRUE, response |-> Switching]
  /\ hook = NoHook
  /\ conns = [client |-> [c \in Conn |-> "connecting"],
              flag |-> [c \in Conn |-> FALSE],
              geminiSocket |-> [c \in Conn |-> 0],
              sockets |-> <<>>,
              toClient |-> [c \in Conn |-> <<>>],
              n |-> 0, actor |-> 0]

NewSocket(c) == [owner |-> c, state |-> "connecting", sent |-> <<>>]

\* socket g (0: none) after out was sent on it by a callback of c
SendOn(sockets, g, c, out) ==
  [j \in DOMAIN sockets |->
     IF j = g THEN [sockets[j] EXCEPT !.sent = @ \o Tagged(c, out)]
     ELSE sockets[j]]

\* clientSocket.send of connection c
SessClientSend(c, out) ==
  IF conns.client[c] = "open" THEN conns.toClient[c] \o Tagged(c, out)
  ELSE conns.toClient[c]

\* (an onopen that opens a second upstream socket over the first)
SessClientOnOpen_TwoSockets(c) ==
  /\ conns.client[c] = "connecting"
  /\ conns' = [conns EXCEPT
                 !.client[c] = "open",
                 !.sockets = @ \o <<NewSocket(c), NewSocket(c)>>,
                 !.geminiSocket[c] = Len(conns.sockets) + 2,
                 !.actor = c]
  /\ UNCHANGED single

\* clientSocket.onopen of connection c: geminiSocket = new WebSocket(...)
SessClientOnOpen(c) ==
  /\ conns.client[c] = "connecting"
  /\ conns' = [conns EXCEPT
                 !.client[c] = "open",
                 !.sockets = Append(@, NewSocket(c)),
                 !.geminiSocket[c] = Len(conns.sockets) + 1,
                 !.actor = c]
  /\ UNCHANGED single

\* clientSocket.onmessage of connection c
SessClientMessage(c) ==
  /\ conns.client[c] = "open"
  /\ conns.n < MaxSessionEvents
  /\ \E data \in ClientData :
       LET g == conns.geminiSocket[c]
           out == IF g = 0 THEN <<>>
                  ELSE ClientOnMessage(data, conns.sockets[g].state,
                                       conns.flag[FlagOf(c)])
       IN conns' = [conns EXCEPT !.sockets = SendOn(@, g, c, out),
                                 !.n = @ + 1, !.actor = c]
  /\ UNCHANGED single

\* clientSocket.onclose of connection c
SessClientOnClose(c) ==
  /\ conns.client[c] = "open"
  /\ LET g == conns.geminiSocket[c] IN
     conns' = [conns EXCEPT
                 !.client[c] = "closed",
                 !.sockets = [j \in DOMAIN @ |->
                                IF j = g THEN [@[j] EXCEPT !.state = Close(@)]
                                ELSE @[j]],
                 !.actor = c]
  /\ UNCHANGED single

\* onopen of upstream socket k, a callback of the connection that created it:
\* geminiSocket.send(setup message)
SessGeminiOnOpen(k) ==
  /\ conns.sockets[k].state = "connecting"
  /\ LET c == conns.sockets[k].owner
         opened == [conns.sockets EXCEPT ![k].state = "open"]
         setup == <<SetupMessage(VoiceName(http.request),
                                 SystemInstruction(http.request))>>
     IN conns' = [conns EXCEPT
                    !.sockets = SendOn(opened, conns.geminiSocket[c], c, setup),
                    !.actor = c]
  /\ UNCHANGED single

\* onmessage of upstream socket k (a text payload)
SessGeminiMessage(k) ==
  /\ conns.sockets[k].state = "open"
  /\ conns.n < MaxSessionEvents
  /\ \E data \in UpstreamData :
       LET c == conns.sockets[k].owner
           r == GeminiOnMessage(data, conns.flag[FlagOf(c)])
       IN conns' = [conns EXCEPT !.flag[FlagOf(c)] = r.flag,
                                 !.toClient[c] = SessClientSend(c, r.out),
                                 !.n = @ + 1, !.actor = c]
  /\ UNCHANGED single

\* onclose of upstream socket k
SessGeminiOnClose(k) ==
  /\ conns.sockets[k].state \in {"open", "closing"}
  /\ LET c == conns.sockets[k].owner
         out == <<DisconnectedMsg("Connection closed")>>
     IN conns' = [conns EXCEPT !.sockets[k].state = "closed",
                               !.toClient[c] = SessClientSend(c, out),
                               !.actor = c]
  /\ UNCHANGED single

NextSessions ==
  \/ \E c \in Conn : SessClientOnOpen(c)
  \/ \E c \in Conn : SessClientMessage(c)
  \/ \E c \in Conn : SessClientOnClose(c)
  \/ \E k \in DOMAIN conns.sockets : SessGeminiOnOpen(k)
  \/ \E k \in DOMAIN conns.sockets : SessGeminiMessage(k)
  \/ \E k \in DOMAIN conns.sockets : SessGeminiOnClose(k)

SpecSessions == InitSessions /\ [][NextSessions]_vars

\* what belongs to connection c: its flag, its geminiSocket, that socket's
\* state, the sockets it created and what its client was sent
Flag(cs, c) == cs.flag[FlagOf(c)]
Upstream(cs, c) ==
  IF cs.geminiSocket[c] = 0 THEN "null" ELSE cs.sockets[cs.geminiSocket[c]]
OwnedBy(cs, c) == { k \in DOMAIN cs.sockets : cs.sockets[k].owner = c }

\* C14: a callback of one connection leaves the other connection's
\* isSetupComplete, its geminiSocket and that socket (state and messages
\* sent) and what the other's client was sent unchanged; and every message
\* on an upstream socket was sent by a callback of the connection that
\* created the socket, every message to a client by a callback of its own
\* connection.
C14_SessionsIsolated ==
  [][ \A c \in Conn :
        /\ c # conns'.actor
             => /\ Flag(conns', c) = Flag(conns, c)
                /\ conns'.geminiSocket[c] = conns.geminiSocket[c]
                /\ Upstream(conns', c) = Upstream(conns, c)
                /\ conns'.client[c] = conns.client[c]
                /\ conns'.toClient[c] = conns.toClient[c]
        /\ \A k \in OwnedBy(conns', c) :
             \A i \in 1..Len(conns'.sockets[k].sent) :
               conns'.sockets[k].sent[i].from = c
        /\ \A i \in 1..Len(conns'.toClient[c]) :
             conns'.toClient[c][i].from = c
        /\ c # conns'.actor
             => \A d \in ClientData :
                  conns.geminiSocket[c] # 0
                    => ClientOnMessage(d, Upstream(conns', c).state, Flag(conns', c))
                       = ClientOnMessage(d, Upstream(conns, c).state, Flag(conns, c))
    ]_vars

\* C14 witness: connection 1 has completed its setup and its client was told,
\* while connection 2, its upstream open as well, has not.
C14_Witness ==
  /\ conns.flag[1] /\ ~conns.flag[2]
  /\ conns.toClient[1] = Tagged(1, <<SetupCompleteMsg>>)
  /\ conns.toClient[2] = <<>>
  /\ conns.geminiSocket[2] # 0
  /\ Upstream(conns, 2).state = "open"

\* C15: each connection has at most one upstream socket that is connecting or
\* open, and that one is its geminiSocket.
C15_OneUpstreamPerClient ==
  \A c \in Conn :
    LET live == { k \in OwnedBy(conns, c) :
                    conns.sockets[k].state \in {"connecting", "open"} }
    IN /\ Cardinality(live) <= 1
       /\ \A k \in live : conns.geminiSocket[c] = k

\* C15 witness: both connections have their upstream socket open, two sockets
\* in all.
C15_Witness ==
  /\ Len(conns.sockets) = 2
  /\ \A k \in 1..2 : conns.sockets[k].state = "open"
  /\ conns.sockets[1].owner # conns.sockets[2].owner

(***************************************************************************)
(* The client's connection state machine (useGeminiLive): the states of    *)
(* ConnectionState, the reconnection options and their defaults are those  *)
(* of types.ts; the transitions are the specified ones: connect, the       *)
(* handshake acknowledgement (setup_complete), the loss of the transport   *)
(* (error and close events of the WebSocket), the backoff timer and        *)
(* disconnect.  A transport failure during the first connecting is not     *)
(* specified and is not an event of this model.                            *)
(***************************************************************************)

\* Bound on the audio frames the capture pipeline produces while connected.
MaxFrames == 2

\* reconnection options: the defaults and another setting
DEFAULT_RECONNECTION ==
  [maxAttempts |-> 5, initialDelay |-> 1000, maxDelay |-> 10000,
   backoffFactor |-> 2]
Reconnections ==
  { DEFAULT_RECONNECTION,
    [maxAttempts |-> 2, initialDelay |-> 500, maxDelay |-> 1200,
     backoffFactor |-> 3] }

Min(a, b) == IF a <= b THEN a ELSE b

RECURSIVE Pow(_, _)
Pow(b, e) == IF e = 0 THEN 1 ELSE b * Pow(b, e - 1)

\* (a delay without the cap)
Delay_Uncapped(cfg, k) == cfg.initialDelay * Pow(cfg.backoffFactor, k - 1)

\* the delay before reconnection attempt k
Delay(cfg, k) ==
  Min(cfg.initialDelay * Pow(cfg.backoffFactor, k - 1), cfg.maxDelay)

ConnectionState ==
  {"idle", "connecting", "connected", "reconnecting", "error", "disconnected"}

\* The hook's state: connectionState; socket, the readyState of its
\* WebSocket ("none": no socket; "failed": error event seen, close event to
\* come); attempts, the reconnection attempts started since the connection
\* was last established; timers, the delays of the pending backoff timers;
\* inflight, the reconnection attempts started and not yet failed or
\* acknowledged; capturing; lateClose, a socket closed by disconnect whose
\* close event is still to come.  History: waited (the delays of the timers
\* that fired for the attempts counted), frames (audio frames sent),
\* userDisconnected (disconnect called, connect not yet called again) and ev
\* (the event handled last).
HookIdle(cfg) ==
  [cfg |-> cfg, connectionState |-> "idle", socket |-> "none", attempts |-> 0,
   timers |-> <<>>, inflight |-> 0, capturing |-> FALSE, lateClose |-> FALSE,
   waited |-> <<>>, frames |-> 0, userDisconnected |-> FALSE, ev |-> "mount"]

relaySide == <<clientSocket, geminiSocket, isSetupComplete, toGemini, toClient,
               reading, nEvents, last, toClientSeq, http, conns>>

InitClient ==
  /\ clientSocket = "none"
  /\ geminiSocket = "null"
  /\ isSetupComplete = FALSE
  /\ toGemini = <<>>
  /\ toClient = <<>>
  /\ reading = {}
  /\ nEvents = 0
  /\ last = [ev |-> "upgrade", data |-> NoData, seq |-> 0]
  /\ toClientSeq = <<>>
  /\ http = [request |-> PlainRequest, apiKey |-> TRUE, response |-> Switching]
  /\ conns = NoConns
  /\ \E cfg \in Reconnections : hook = HookIdle(cfg)

\* connect(): from idle, or again after disconnected or error
Connect ==
  /\ hook.connectionState \in {"idle", "disconnected", "error"}
  /\ hook' = [hook EXCEPT !.connectionState = "connecting",
                          !.socket = "connecting", !.attempts = 0,
                          !.timers = <<>>, !.inflight = 0, !.waited = <<>>,
                          !.capturing = TRUE, !.userDisconnected = FALSE,
                          !.ev = "connect"]
  /\ UNCHANGED relaySide

\* the handshake acknowledgement: setup_complete on the hook's socket
OnSetupComplete ==
  /\ hook.socket = "connecting"
  /\ hook.connectionState \in {"connecting", "reconnecting"}
  /\ hook' = [hook EXCEPT !.connectionState = "connected", !.socket = "open",
                          !.attempts = 0, !.inflight = 0, !.waited = <<>>,
                          !.ev = "ack"]
  /\ UNCHANGED relaySide

\* (a reaction to a lost transport that gives up after the first failed
\* attempt)
Lost_GivesUpEarly(h) ==
  IF h.attempts = 0
    THEN [h EXCEPT !.connectionState = "reconnecting", !.inflight = 0,
                   !.timers = Append(@, Delay(h.cfg, h.attempts + 1))]
    ELSE [h EXCEPT !.connectionState = "error", !.inflight = 0]

\* the transport of an established connection or of a reconnection attempt
\* is lost: back off and try again while attempts remain, else error
Lost(h) ==
  IF h.attempts < h.cfg.maxAttempts
    THEN [h EXCEPT !.connectionState = "reconnecting", !.inflight = 0,
                   !.timers = Append(@, Delay(h.cfg, h.attempts + 1))]
    ELSE [h EXCEPT !.connectionState = "error", !.inflight = 0]

\* sockets whose loss is an event of the model
Droppable ==
  \/ hook.socket = "open" /\ hook.connectionState = "connected"
  \/ hook.socket = "connecting" /\ hook.connectionState = "reconnecting"

\* the error event of the socket; its close event follows
OnSocketError ==
  /\ Droppable
  /\ hook' = [Lost(hook) EXCEPT !.socket = "failed", !.ev = "error"]
  /\ UNCHANGED relaySide

\* (a close handler that reacts to the close that follows an error as well)
OnSocketClose_Reschedules ==
  /\ Droppable \/ hook.socket = "failed"
  /\ hook' = [Lost(hook) EXCEPT !.socket = "none", !.ev = "close"]
  /\ UNCHANGED relaySide

\* the close event of the socket: a loss, unless the error event was one
OnSocketClose ==
  /\ Droppable \/ hook.socket = "failed"
  /\ hook' = [(IF hook.socket = "failed" THEN hook ELSE Lost(hook))
                EXCEPT !.socket = "none", !.ev = "close"]
  /\ UNCHANGED relaySide

\* a backoff timer fires: the next reconnection attempt starts
OnBackoffTimer ==
  /\ hook.timers # <<>>
  /\ hook.socket \in {"none", "failed"}
  /\ hook' = [hook EXCEPT !.timers = Tail(@), !.attempts = @ + 1,
                          !.waited = Append(@, Head(hook.timers)),
                          !.inflight = @ + 1, !.socket = "connecting",
                          !.lateClose = @ \/ hook.socket = "failed",
                          !.ev = "attempt"]
  /\ UNCHANGED relaySide

\* (a disconnect that leaves the backoff timer pending)
Disconnect_KeepsTimer ==
  /\ hook' = [hook EXCEPT !.connectionState = "disconnected",
                          !.inflight = 0, !.capturing = FALSE,
                          !.lateClose = @ \/ hook.socket # "none",
                          !.socket = "none", !.userDisconnected = TRUE,
                          !.ev = "disconnect"]
  /\ UNCHANGED relaySide

\* disconnect(): stops the capture, closes the socket, cancels the timer
Disconnect ==
  /\ hook' = [hook EXCEPT !.connectionState = "disconnected",
                          !.timers = <<>>, !.inflight = 0,
                          !.capturing = FALSE,
                          !.lateClose = @ \/ hook.socket # "none",
                          !.socket = "none", !.userDisconnected = TRUE,
                          !.ev = "disconnect"]
  /\ UNCHANGED relaySide

\* the close event of a socket that disconnect (or a later attempt) has let
\* go of
OnLateClose ==
  /\ hook.lateClose
  /\ hook' = [hook EXCEPT !.lateClose = FALSE, !.ev = "late_close"]
  /\ UNCHANGED relaySide

\* the capture pipeline has a frame: sent while connected
SendAudio ==
  /\ hook.capturing
  /\ hook.connectionState = "connected"
  /\ hook.socket = "open"
  /\ hook.frames < MaxFrames
  /\ hook' = [hook EXCEPT !.frames = @ + 1, !.ev = "audio"]
  /\ UNCHANGED relaySide

NextClient ==
  \/ Connect
  \/ OnSetupComplete
  \/ OnSocketError
  \/ OnSocketClose
  \/ OnBackoffTimer
  \/ Disconnect
  \/ OnLateClose
  \/ SendAudio

SpecClient == InitClient /\ [][NextClient]_vars

(***************************************************************************)
(* Reconnection                                                            *)
(***************************************************************************)

\* C17: the delays waited before the reconnection attempts 1, 2, ... made
\* since the connection was lost are min(initialDelay * backoffFactor^(k-1),
\* maxDelay), with the defaults 1000, 2000, 4000, 8000, 10000; a pending
\* timer has the delay of the next attempt; no more than maxAttempts attempts
\* are started; once attempt maxAttempts has failed the state is error, and
\* in error no timer is pending and no attempt in flight, so none starts.
C17_BackoffDelays ==
  LET cfg == hook.cfg
      w == hook.waited
  IN /\ Len(w) = hook.attempts
     /\ hook.attempts <= cfg.maxAttempts
     /\ \A k \in 1..Len(w) :
          w[k] = Min(cfg.initialDelay * cfg.backoffFactor ^ (k - 1), cfg.maxDelay)
     /\ cfg = DEFAULT_RECONNECTION
          => w = SubSeq(<<1000, 2000, 4000, 8000, 10000>>, 1, Len(w))
     /\ \A i \in 1..Len(hook.timers) :
          hook.timers[i] = Min(cfg.initialDelay * cfg.backoffFactor ^ hook.attempts,
                               cfg.maxDelay)
     /\ (hook.attempts = cfg.maxAttempts /\ hook.inflight = 0
           /\ ~hook.userDisconnected)
          => hook.connectionState = "error"
     /\ hook.connectionState = "error"
          => /\ hook.attempts = cfg.maxAttempts
             /\ hook.timers = <<>> /\ hook.inflight = 0
             /\ hook.socket \in {"none", "failed"}

\* C17 witness: with the defaults five attempts have failed, after delays of
\* 1000, 2000, 4000, 8000 and 10000, and the state is error.
C17_Witness ==
  /\ hook.cfg = DEFAULT_RECONNECTION
  /\ hook.connectionState = "error"
  /\ hook.waited = <<1000, 2000, 4000, 8000, 10000>>

\* C18: at most one backoff timer is pending, at most one reconnection
\* attempt is in flight, and no timer is pending while an attempt is in
\* flight; the attempt in flight is the hook's connecting socket.
C18_AttemptsSerialized ==
  /\ Len(hook.timers) + hook.inflight <= 1
  /\ hook.inflight = 1
       => hook.socket = "connecting" /\ hook.connectionState = "reconnecting"

\* C18 witness: a second reconnection attempt is in flight while the close
\* event of the first attempt's socket has yet to arrive.
C18_Witness ==
  /\ hook.inflight = 1
  /\ hook.attempts = 2
  /\ hook.lateClose

C20_NothingAfterDisconnect ==
  [][ (hook.userDisconnected /\ hook'.userDisconnected)
        => /\ hook'.attempts = hook.attempts
           /\ hook'.inflight = 0
           /\ hook'.socket # "connecting"
           /\ hook'.frames = hook.frames
           /\ hook'.connectionState = "disconnected" ]_vars

\* C20 witness: disconnect was called during a reconnection, and the close
\* event of the socket it closed has arrived since.
C20_Witness ==
  /\ hook.userDisconnected
  /\ hook.ev = "late_close"
  /\ hook.connectionState = "disconnected"
  /\ hook.attempts \in 1..(hook.cfg.maxAttempts - 1)

(***************************************************************************)
(* Content messages, media input, the upstream close                       *)
(***************************************************************************)

ContentTypes ==
  {"response", "audio", "input_transcription", "output_transcription",
   "turn_complete"}

\* C27: every content message the client was sent comes after a
\* setup_complete; in particular the setup_complete inferred from a content
\* message precedes what is translated from that message.
C27_SetupCompleteBeforeContent ==
  \A i \in 1..Len(toClient) :
    toClient[i].type \in ContentTypes
      => \E j \in 1..(i - 1) : toClient[j] = SetupCompleteMsg

\* C27 witness: the completion was inferred from a content message: the
\* client was sent setup_complete and then the message's response, both from
\* the same upstream message.
C27_Witness ==
  /\ Len(toClient) >= 2
  /\ toClient[1] = SetupCompleteMsg
  /\ toClient[2].type = "response"
  /\ toClientSeq[1] = toClientSeq[2]

\* an upstream message that takes the serverContent branch
IsContent(d) ==
  d.ok /\ ~d.hasError /\ ~d.hasSetupComplete /\ ~d.hasUpdate /\ d.hasContent

\* the items of a content message, in the order prescribed: per part its
\* text and its inline audio, then the transcriptions, then the turn end
RECURSIVE PartItems(_)
PartItems(parts) ==
  IF parts = <<>> THEN <<>>
  ELSE LET p == parts[1] IN
       (IF p.text # "" THEN <<[type |-> "response", text |-> p.text]>> ELSE <<>>)
       \o (IF p.mimeType \in {"audio/pcm;rate=24000", "audio/pcm;rate=16000"}
             THEN <<[type |-> "audio", mimeType |-> p.mimeType, data |-> p.data]>>
             ELSE <<>>)
       \o PartItems(SubSeq(parts, 2, Len(parts)))
Items(d) ==
  PartItems(d.parts)
  \o (IF d.inputText # "" THEN <<[type |-> "input_transcription", text |-> d.inputText]>>
      ELSE <<>>)
  \o (IF d.outputText # "" THEN <<[type |-> "output_transcription", text |-> d.outputText]>>
      ELSE <<>>)
  \o (IF d.turnComplete THEN <<[type |-> "turn_complete"]>> ELSE <<>>)

\* C28: a content message handled while the client socket is open adds to
\* what the client was sent, after the setup_complete it may imply, exactly
\* one message per item of the content message, in the order of the items,
\* turn_complete last.
C28_ContentUnpacked ==
  [][ (GeminiStep /\ IsContent(last'.data) /\ clientSocket = "open")
        => toClient' = toClient
                       \o (IF isSetupComplete THEN <<>> ELSE <<SetupCompleteMsg>>)
                       \o Items(last'.data) ]_vars

\* C28 witness: a message with an audio part, a text part, both
\* transcriptions and the turn end was unpacked into five messages.
C28_Witness ==
  /\ last.ev = "gemini_message"
  /\ IsContent(last.data)
  /\ Len(last.data.parts) = 2
  /\ Len(toClient) = 6
  /\ toClient[2].type = "audio" /\ toClient[3].type = "response"
  /\ toClient[4].type = "input_transcription"
  /\ toClient[5].type = "output_transcription"
  /\ toClient[6].type = "turn_complete"

\* C29: after setup, the upstream open, a client frame message adds one
\* realtime-input message with the single chunk (image/jpeg, the frame's
\* data), a client audio message one with the single chunk (the declared
\* mime type, audio/pcm;rate=16000 when none is declared, the message's
\* data).
C29_MediaIsOneChunk ==
  [][ (ClientStep /\ last'.data.ok /\ isSetupComplete /\ geminiSocket = "open")
        => LET d == last'.data IN
           /\ d.type = "frame"
                => toGemini' = Append(toGemini,
                     [realtimeInput |-> [mediaChunks |->
                        <<[mimeType |-> "image/jpeg", data |-> d.data]>>]])
           /\ (d.type = "audio" /\ d.mimeType # "")
                => toGemini' = Append(toGemini,
                     [realtimeInput |-> [mediaChunks |->
                        <<[mimeType |-> d.mimeType, data |-> d.data]>>]])
           /\ (d.type = "audio" /\ d.mimeType = "")
                => toGemini' = Append(toGemini,
                     [realtimeInput |-> [mediaChunks |->
                        <<[mimeType |-> "audio/pcm;rate=16000", data |-> d.data]>>]])
    ]_vars

\* C29 witness: an audio message declared audio/webm went upstream as one
\* chunk of that type.
C29_Witness ==
  /\ last.ev = "client_message"
  /\ last.data.type = "audio"
  /\ last.data.mimeType = "audio/webm"
  /\ Len(toGemini) = 2
  /\ toGemini[2].realtimeInput.mediaChunks[1].mimeType = "audio/webm"

\* C30: the close of the upstream socket adds, when the client socket is
\* open, exactly one disconnected message with the reason of the close event
\* (Connection closed when it has none) to what the client was sent, and
\* nothing when the client socket is not open.
C30_DisconnectedOnUpstreamClose ==
  [][ (geminiSocket # "closed" /\ geminiSocket' = "closed")
        => /\ last'.ev = "gemini_close"
           /\ clientSocket = "open"
                => toClient' = Append(toClient,
                     [type |-> "disconnected",
                      reason |-> (IF last'.data.reason = "" THEN "Connection closed"
                                  ELSE last'.data.reason)])
           /\ clientSocket # "open" => toClient' = toClient ]_vars

\* C30 witness: the upstream closed with a reason while the client socket was
\* open, and the client was told that reason.
C30_Witness ==
  /\ last.ev = "gemini_close"
  /\ last.data.reason = "going away"
  /\ clientSocket = "open"
  /\ toClient # <<>>
  /\ toClient[Len(toClient)] = [type |-> "disconnected", reason |-> "going away"]

(***************************************************************************)
(* The client's transcript aggregator (useGeminiLive): per role a buffer    *)
(* of the fragments received (input_transcription: user;                    *)
(* output_transcription: assistant) and a debounce timer; a buffer is       *)
(* finalized into a Transcript by its timer or by turn_complete.  Time is   *)
(* counted in ticks, transcriptDebounceMs being DebounceTicks of them.      *)
(***************************************************************************)

\* Bound on the fragments received.
MaxFragments == 3

\* transcriptDebounceMs, in ticks
DebounceTicks == 2

Roles == {"user", "assistant"}
Fragments == {"Hel", "lo "}

\* the relay side, absent from the client models
NoRelay ==
  /\ clientSocket = "none"
  /\ geminiSocket = "null"
  /\ isSetupComplete = FALSE
  /\ toGemini = <<>>
  /\ toClient = <<>>
  /\ reading = {}
  /\ nEvents = 0
  /\ last = [ev |-> "upgrade", data |-> NoData, seq |-> 0]
  /\ toClientSeq = <<>>
  /\ http = [request |-> PlainRequest, apiKey |-> TRUE, response |-> Switching]
  /\ conns = NoConns

\* the text of a buffer: its fragments joined in arrival order
RECURSIVE Joined(_)
Joined(buffer) ==
  IF buffer = <<>> THEN "" ELSE buffer[1].text \o Joined(Tail(buffer))

\* the fragments of a buffer, as numbered on arrival
Numbers(buffer) == [i \in 1..Len(buffer) |-> buffer[i].n]

\* The aggregator: buffer, per role the fragments not yet finalized; timer,
\* per role the ticks left of its debounce timer (-1: not pending);
\* transcripts, the finalized ones, in the order emitted.  History: received
\* (the number of fragments so far), quiet (per role the ticks since its last
\* fragment, up to DebounceTicks), of and by (in a transcript: the numbers of
\* its fragments and what finalized it) and ev, role (the event handled
\* last).
InitTranscripts ==
  /\ NoRelay
  /\ hook = [buffer |-> [r \in Roles |-> <<>>],
             timer |-> [r \in Roles |-> -1],
             transcripts |-> <<>>,
             received |-> 0,
             quiet |-> [r \in Roles |-> DebounceTicks],
             ev |-> "mount", role |-> ""]

\* a buffer is finalized: one Transcript with a fresh id, unless it is empty
Finalized(transcripts, buffer, role, by) ==
  IF buffer = <<>> THEN transcripts
  ELSE Append(transcripts,
              [id |-> Len(transcripts) + 1, role |-> role,
               text |-> Joined(buffer), of |-> Numbers(buffer), by |-> by])

\* (a fragment handler that leaves a pending timer running)
OnFragment_NoRestart(role) ==
  /\ hook.received < MaxFragments
  /\ \E f \in Fragments :
       hook' = [hook EXCEPT
                  !.buffer[role] = Append(@, [n |-> hook.received + 1, text |-> f]),
                  !.timer[role] = IF @ = -1 THEN DebounceTicks ELSE @,
                  !.received = @ + 1,
                  !.quiet[role] = 0,
                  !.ev = "fragment", !.role = role]
  /\ UNCHANGED relaySide

\* a transcription fragment of a role arrives: appended to the role's
\* buffer, the role's timer (re)started
OnFragment(role) ==
  /\ hook.received < MaxFragments
  /\ \E f \in Fragments :
       hook' = [hook EXCEPT
                  !.buffer[role] = Append(@, [n |-> hook.received + 1, text |-> f]),
                  !.timer[role] = DebounceTicks,
                  !.received = @ + 1,
                  !.quiet[role] = 0,
                  !.ev = "fragment", !.role = role]
  /\ UNCHANGED relaySide

\* a tick of time passes; a timer that is due fires first
Tick ==
  /\ \A r \in Roles : hook.timer[r] # 0
  /\ hook' = [hook EXCEPT
                !.timer = [r \in Roles |-> IF @[r] > 0 THEN @[r] - 1 ELSE @[r]],
                !.quiet = [r \in Roles |->
                             IF @[r] < DebounceTicks THEN @[r] + 1 ELSE @[r]],
                !.ev = "tick", !.role = ""]
  /\ UNCHANGED relaySide

\* the debounce timer of a role elapses: its buffer is finalized and cleared
OnDebounceTimer(role) ==
  /\ hook.timer[role] = 0
  /\ hook' = [hook EXCEPT
                !.transcripts = Finalized(@, hook.buffer[role], role, "timer"),
                !.buffer[role] = <<>>,
                !.timer[role] = -1,
                !.ev = "timer", !.role = role]
  /\ UNCHANGED relaySide

\* (a turn_complete handler that emits the transcripts and leaves buffers and
\* timers as they are)
OnTurnComplete_KeepsBuffers ==
  /\ hook' = [hook EXCEPT
                !.transcripts =
                   Finalized(Finalized(@, hook.buffer["user"], "user", "turn_complete"),
                             hook.buffer["assistant"], "assistant", "turn_complete"),
                !.ev = "turn_complete", !.role = ""]
  /\ UNCHANGED relaySide

\* turn_complete: both buffers are finalized at once, whatever their timers
OnTurnComplete ==
  /\ hook' = [hook EXCEPT
                !.transcripts =
                   Finalized(Finalized(@, hook.buffer["user"], "user", "turn_complete"),
                             hook.buffer["assistant"], "assistant", "turn_complete"),
                !.buffer = [r \in Roles |-> <<>>],
                !.timer = [r \in Roles |-> -1],
                !.ev = "turn_complete", !.role = ""]
  /\ UNCHANGED relaySide

NextTranscripts ==
  \/ \E role \in Roles : OnFragment(role)
  \/ Tick
  \/ \E role \in Roles : OnDebounceTimer(role)
  \/ OnTurnComplete

SpecTranscripts == InitTranscripts /\ [][NextTranscripts]_vars

\* the transcripts of a role, and how often fragment n is in a transcript
OfRole(transcripts, role) == SelectSeq(transcripts, LAMBDA t : t.role = role)
TimesFinalized(transcripts, n) ==
  Cardinality({ <<i, j>> \in (1..Len(transcripts)) \X (1..MaxFragments + 1) :
                  j <= Len(transcripts[i].of) /\ transcripts[i].of[j] = n })

\* C21: turn_complete adds, for a role whose buffer holds fragments, exactly
\* one transcript of that role whose text is the fragments joined in arrival
\* order, and none for a role whose buffer is empty; and no fragment is ever
\* in two transcripts, so the timer that was pending does not emit the same
\* fragments again.
C21_TurnCompleteFinalizesOnce ==
  [][ /\ hook'.ev = "turn_complete"
           => \A r \in Roles :
                LET before == OfRole(hook.transcripts, r)
                    after == OfRole(hook'.transcripts, r)
                IN IF hook.buffer[r] = <<>> THEN after = before
                   ELSE /\ Len(after) = Len(before) + 1
                        /\ SubSeq(after, 1, Len(before)) = before
                        /\ after[Len(after)].text = Joined(hook.buffer[r])
      /\ \A n \in 1..hook'.received : TimesFinalized(hook'.transcripts, n) <= 1
    ]_vars

\* C21 witness: Hel and lo of the user, then turn_complete within the
\* debounce window, gave the one transcript Hello, and time has passed since.
C21_Witness ==
  /\ hook.received = 2
  /\ Len(hook.transcripts) = 1
  /\ hook.transcripts[1].role = "user"
  /\ hook.transcripts[1].text = "Hello "
  /\ hook.transcripts[1].of = <<1, 2>>
  /\ hook.transcripts[1].by = "turn_complete"
  /\ hook.ev = "tick"
  /\ hook.quiet["user"] = DebounceTicks

\* C22: the timer of a role finalizes its buffer only after DebounceTicks
\* ticks without a fragment of that role, the finalization adds one
\* transcript with the buffer's text and clears the buffer; a timer is pending
\* exactly while its buffer holds fragments; every fragment received is
\* either in its role's buffer or in exactly one transcript; and the
\* transcripts emitted are never changed, only added to.
C22_DebouncedFinalization ==
  [][ /\ hook'.ev = "timer"
           => LET r == hook'.role IN
              /\ hook.quiet[r] = DebounceTicks
              /\ hook.buffer[r] # <<>>
              /\ hook'.transcripts =
                   Append(hook.transcripts,
                          [id |-> Len(hook.transcripts) + 1, role |-> r,
                           text |-> Joined(hook.buffer[r]),
                           of |-> Numbers(hook.buffer[r]), by |-> "timer"])
              /\ hook'.buffer[r] = <<>>
      /\ \A r \in Roles : (hook'.timer[r] >= 0) <=> (hook'.buffer[r] # <<>>)
      /\ \A n \in 1..hook'.received :
           LET buffered == Cardinality({ <<r, i>> \in Roles \X (1..MaxFragments + 1) :
                                           /\ i <= Len(hook'.buffer[r])
                                           /\ hook'.buffer[r][i].n = n })
           IN buffered + TimesFinalized(hook'.transcripts, n) = 1
      /\ Len(hook'.transcripts) >= Len(hook.transcripts)
      /\ SubSeq(hook'.transcripts, 1, Len(hook.transcripts)) = hook.transcripts
    ]_vars

\* C22 witness: a second fragment restarted the timer of the user, which
\* then elapsed and gave one transcript of both fragments, while a fragment
\* of the assistant is still buffered.
C22_Witness ==
  /\ hook.ev = "timer" /\ hook.role = "user"
  /\ Len(hook.transcripts) = 1
  /\ hook.transcripts[1].of = <<1, 3>>
  /\ Len(hook.buffer["assistant"]) = 1

(***************************************************************************)
(* The client's tool-call bridge (useGeminiLive): a tool_call message       *)
(* invokes the registered onToolCall handler, whose result, or failure, is  *)
(* sent back as a tool_result message with the call's id; without a handler *)
(* the bridge answers itself.                                               *)
(***************************************************************************)

CallIds == {"abc", "def", "ghi"}

ToolResultMsg(id, result) ==
  [type |-> "tool_result", toolCallId |-> id, result |-> result]

\* The bridge: onToolCall (a handler is registered), pending (the calls whose
\* handler has not settled), sent (the messages sent upstream, in order).
\* History: calls (the ids of the tool calls received, in order) and ev.
InitTools ==
  /\ NoRelay
  /\ \E registered \in BOOLEAN :
       hook = [onToolCall |-> registered, pending |-> {}, sent |-> <<>>,
               calls |-> <<>>, ev |-> "mount"]

Received(h) == { h.calls[i] : i \in 1..Len(h.calls) }

\* (a bridge that drops a tool call when no handler is registered)
OnToolCall_NeedsHandler(id) ==
  /\ id \notin Received(hook)
  /\ hook' = [hook EXCEPT
                !.calls = Append(@, id),
                !.pending = IF hook.onToolCall THEN @ \cup {id} ELSE @,
                !.ev = "tool_call"]
  /\ UNCHANGED relaySide

\* a tool_call message arrives: the handler is invoked, or, when there is
\* none, the call is answered with the no-handler result
OnToolCall(id) ==
  /\ id \notin Received(hook)
  /\ hook' = [hook EXCEPT
                !.calls = Append(@, id),
                !.pending = IF hook.onToolCall THEN @ \cup {id} ELSE @,
                !.sent = IF hook.onToolCall THEN @
                         ELSE Append(@, ToolResultMsg(id, "no handler")),
                !.ev = "tool_call"]
  /\ UNCHANGED relaySide

\* the handler's promise for a call resolves: its result is sent
OnHandlerResult(id) ==
  /\ id \in hook.pending
  /\ hook' = [hook EXCEPT !.pending = @ \ {id},
                          !.sent = Append(@, ToolResultMsg(id, "result")),
                          !.ev = "handler_result"]
  /\ UNCHANGED relaySide

\* the handler throws or its promise rejects: an error result is sent
OnHandlerFailure(id) ==
  /\ id \in hook.pending
  /\ hook' = [hook EXCEPT !.pending = @ \ {id},
                          !.sent = Append(@, ToolResultMsg(id, "error")),
                          !.ev = "handler_failure"]
  /\ UNCHANGED relaySide

NextTools ==
  \/ \E id \in CallIds : OnToolCall(id)
  \/ \E id \in CallIds : OnHandlerResult(id)
  \/ \E id \in CallIds : OnHandlerFailure(id)

SpecTools == InitTools /\ [][NextTools]_vars

ResultsFor(h, id) == { i \in 1..Len(h.sent) : h.sent[i].toolCallId = id }

\* C23: while no handler is registered, every tool call received has been
\* answered by exactly one tool_result message with its id, the no-handler
\* result, and in the order of the calls; nothing else has been sent.
C23_NoHandlerStillAnswers ==
  ~hook.onToolCall
    => /\ \A id \in Received(hook) : Cardinality(ResultsFor(hook, id)) = 1
       /\ Len(hook.sent) = Len(hook.calls)
       /\ \A i \in 1..Len(hook.sent) :
            hook.sent[i] = [type |-> "tool_result", toolCallId |-> hook.calls[i],
                            result |-> "no handler"]

\* C23 witness: without a handler the calls abc and def were received and
\* answered.
C23_Witness ==
  /\ ~hook.onToolCall
  /\ hook.calls = <<"abc", "def">>
  /\ Len(hook.sent) = 2
  /\ hook.sent[1].toolCallId = "abc"

\* ---------------------------------------------------------------------------
\* The playback scheduler of the client: decoded chunks are appended to a
\* queue, withheld until the pre-roll buffer is filled, and then chained on
\* one timeline by a "next start time" cursor.
\* ---------------------------------------------------------------------------

MaxChunks == 4

MaxStreams == 2

DEFAULT_MIN_BUFFER_MS == 200

MinBufferChoices == {100, DEFAULT_MIN_BUFFER_MS}

ChunkMs == {50, 100, 150}

RECURSIVE Total(_)
Total(queue) ==
  IF queue = <<>> THEN 0 ELSE Head(queue).ms + Total(Tail(queue))

InitPlayback ==
  /\ NoRelay
  /\ \E min \in MinBufferChoices :
       hook = [minBufferMs |-> min, queue |-> <<>>, begun |-> FALSE,
               cursor |-> 0, stream |-> 1, arrived |-> 0,
               schedule |-> <<>>, ev |-> "mount"]

RECURSIVE Started_NoAdvance(_, _, _, _)
RECURSIVE Started(_, _, _, _)

\* A scheduler that starts every chunk of the queue at the same cursor.
Started_NoAdvance(schedule, queue, cursor, tag) ==
  IF queue = <<>> THEN schedule
  ELSE Started_NoAdvance(
         Append(schedule,
                [index |-> Head(queue).index, start |-> cursor,
                 end |-> cursor + Head(queue).ms, stream |-> tag.stream,
                 preroll |-> tag.preroll, buffered |-> tag.buffered]),
         Tail(queue), cursor, tag)

\* The chunks of the queue are started one after the other, each at the
\* cursor, which then advances by the chunk's duration.
Started(schedule, queue, cursor, tag) ==
  IF queue = <<>> THEN schedule
  ELSE Started(
         Append(schedule,
                [index |-> Head(queue).index, start |-> cursor,
                 end |-> cursor + Head(queue).ms, stream |-> tag.stream,
                 preroll |-> tag.preroll, buffered |-> tag.buffered]),
         Tail(queue), cursor + Head(queue).ms, tag)

\* A scheduler without pre-roll: the first chunk is started as it arrives.
OnAudioChunk_NoPreroll(ms) ==
  /\ hook.arrived < MaxChunks
  /\ LET queue == Append(hook.queue, [index |-> hook.arrived + 1, ms |-> ms])
         tag   == [stream |-> hook.stream, preroll |-> ~hook.begun,
                   buffered |-> Total(queue)]
     IN hook' = [hook EXCEPT
                   !.arrived = @ + 1,
                   !.queue = <<>>,
                   !.begun = TRUE,
                   !.schedule = Started(@, queue, hook.cursor, tag),
                   !.cursor = @ + Total(queue),
                   !.ev = "chunk"]
  /\ UNCHANGED relaySide

\* An inbound audio chunk: appended to the queue; the queue is started when
\* playback has begun or the buffered duration has reached minBufferMs.
OnAudioChunk(ms) ==
  /\ hook.arrived < MaxChunks
  /\ LET queue == Append(hook.queue, [index |-> hook.arrived + 1, ms |-> ms])
         tag   == [stream |-> hook.stream, preroll |-> ~hook.begun,
                   buffered |-> Total(queue)]
     IN IF hook.begun \/ Total(queue) >= hook.minBufferMs
        THEN hook' = [hook EXCEPT
                        !.arrived = @ + 1,
                        !.queue = <<>>,
                        !.begun = TRUE,
                        !.schedule = Started(@, queue, hook.cursor, tag),
                        !.cursor = @ + Total(queue),
                        !.ev = "chunk"]
        ELSE hook' = [hook EXCEPT
                        !.arrived = @ + 1,
                        !.queue = queue,
                        !.ev = "chunk"]
  /\ UNCHANGED relaySide

\* The output stream is torn down: pending chunks are discarded and the
\* cursor is reset; the next chunk belongs to a new stream.
Teardown ==
  /\ hook.stream < MaxStreams
  /\ hook.arrived > 0
  /\ hook' = [hook EXCEPT
                !.queue = <<>>, !.begun = FALSE, !.cursor = 0,
                !.stream = @ + 1, !.ev = "teardown"]
  /\ UNCHANGED relaySide

NextPlayback ==
  \/ \E ms \in ChunkMs : OnAudioChunk(ms)
  \/ Teardown

SpecPlayback == InitPlayback /\ [][NextPlayback]_vars

Played(h, stream) ==
  SelectSeq(h.schedule, LAMBDA e : e.stream = stream)

\* C24: within one output stream the chunks started form a chain: chunk n+1
\* starts exactly at the end of chunk n, so start times never decrease, no
\* two chunks overlap, no gap is left, the chunks are in arrival order, and
\* once playback has begun no chunk is left waiting.
C24_ChunksChained ==
  /\ \A stream \in 1..MaxStreams :
       LET played == Played(hook, stream)
       IN /\ \A n \in 1..(Len(played) - 1) :
               /\ played[n + 1].start = played[n].end
               /\ played[n + 1].start >= played[n].start
               /\ played[n + 1].index > played[n].index
          /\ \A m, n \in 1..Len(played) :
               m < n => played[m].end <= played[n].start
  /\ hook.begun => hook.queue = <<>>

\* C24 witness: three chunks of one stream were started, the last of them
\* after playback had begun.
C24_Witness ==
  /\ hook.begun
  /\ Len(Played(hook, hook.stream)) >= 3
  /\ ~hook.schedule[Len(hook.schedule)].preroll
  /\ hook.ev = "chunk"

\* C25: until playback has begun no chunk of the stream is started, and the
\* chunks that began playback were started with at least minBufferMs of
\* audio buffered.
C25_PrerollBeforePlayback ==
  /\ ~hook.begun => Played(hook, hook.stream) = <<>>
  /\ \A n \in 1..Len(hook.schedule) :
       hook.schedule[n].preroll
         => hook.schedule[n].buffered >= hook.minBufferMs

\* C25 witness: with the default of 200 ms two chunks were withheld, and
\* playback began with the third.
C25_Witness ==
  /\ hook.minBufferMs = DEFAULT_MIN_BUFFER_MS
  /\ hook.begun
  /\ Len(hook.schedule) = 3
  /\ \A n \in 1..3 : hook.schedule[n].preroll
  /\ hook.schedule[1].buffered >= 200

\* ---------------------------------------------------------------------------
\* Voice-activity gating of the microphone: the detector reports
\* onSpeechStart, onSpeechEnd and onVADMisfire; an encoded frame is sent at
\* once while the gate is open and dropped while it is closed.
\* ---------------------------------------------------------------------------

MaxVadFrames == 3

MaxSegments == 2

InitVad ==
  /\ NoRelay
  /\ \E vad \in BOOLEAN :
       hook = [vad |-> vad, isUserSpeaking |-> FALSE, segment |-> 0,
               retracted |-> {}, frames |-> 0, sent |-> <<>>, ev |-> "mount"]

\* The detector reports the start of a speech segment.
OnSpeechStart ==
  /\ hook.vad
  /\ ~hook.isUserSpeaking
  /\ hook.segment < MaxSegments
  /\ hook' = [hook EXCEPT !.isUserSpeaking = TRUE, !.segment = @ + 1,
                          !.ev = "speech_start"]
  /\ UNCHANGED relaySide

\* The detector reports the end of the speech segment.
OnSpeechEnd ==
  /\ hook.vad
  /\ hook.isUserSpeaking
  /\ hook' = [hook EXCEPT !.isUserSpeaking = FALSE, !.ev = "speech_end"]
  /\ UNCHANGED relaySide

\* The detector retracts the speech start it reported: the segment was too
\* short to count as speech.
OnVADMisfire ==
  /\ hook.vad
  /\ hook.isUserSpeaking
  /\ hook' = [hook EXCEPT !.isUserSpeaking = FALSE,
                          !.retracted = @ \cup {hook.segment},
                          !.ev = "misfire"]
  /\ UNCHANGED relaySide

\* An encoded microphone frame: sent immediately unless the gate is closed.
\* The segment recorded with a frame is the one open when it was sent, 0
\* for none.
OnAudioFrame ==
  /\ hook.frames < MaxVadFrames
  /\ LET frame == [frame |-> hook.frames + 1,
                   segment |-> IF hook.isUserSpeaking THEN hook.segment ELSE 0]
     IN hook' = [hook EXCEPT
                   !.frames = @ + 1,
                   !.sent = IF ~hook.vad \/ hook.isUserSpeaking
                            THEN Append(@, frame) ELSE @,
                   !.ev = "frame"]
  /\ UNCHANGED relaySide

NextVad ==
  \/ OnSpeechStart
  \/ OnSpeechEnd
  \/ OnVADMisfire
  \/ OnAudioFrame

SpecVad == InitVad /\ [][NextVad]_vars

SetupSent == toGemini # <<>> /\ IsSetup(toGemini[1])

\* C31 as stated: the voice name and the system instruction of the setup
\* message are each the value of the request's query parameter when it is
\* supplied, and the server-defined default otherwise.
C31_ConfigFromQuery ==
  SetupSent =>
    /\ toGemini[1].setup.voiceName =
         (IF http.request.voice # "" THEN http.request.voice
          ELSE DEFAULT_VOICE)
    /\ toGemini[1].setup.systemInstruction =
         <<[text |-> IF http.request.system_instruction # ""
                     THEN http.request.system_instruction
                     ELSE DEFAULT_SYSTEM_INSTRUCTION]>>

\* C31, amended: the voice name of the setup message is the value of the
\* request's voice query parameter when it is supplied and not empty, and
\* the server-defined default otherwise; the system instruction is the
\* server-defined default whatever the query parameters are.
C31_VoiceFromQueryInstructionDefault ==
  SetupSent =>
    /\ toGemini[1].setup.voiceName =
         (IF http.request.voice # "" THEN http.request.voice
          ELSE DEFAULT_VOICE)
    /\ toGemini[1].setup.systemInstruction =
         <<[text |-> DEFAULT_SYSTEM_INSTRUCTION]>>

\* C31 witness: a request with voice=Kore and a system instruction of its
\* own got a setup message with the voice Kore.
C31_Witness ==
  /\ SetupSent
  /\ http.request.voice = "Kore"
  /\ http.request.system_instruction = "Be brief"
  /\ toGemini[1].setup.voiceName = "Kore"

(***************************************************************************)
(* Sends on a socket that is not open; what follows disconnected; client   *)
(* messages the relay does not understand                                  *)
(***************************************************************************)

\* C32: whatever is sent upstream is sent on an open upstream socket, and
\* the step handling a client message while the upstream socket is not open
\* sends nothing to either socket and changes neither socket nor the flag,
\* also when setup completion was observed before.
C32_NoSendOnUpstreamNotOpen ==
  [][ /\ toGemini' # toGemini => geminiSocket' = "open"
      /\ (ClientStep /\ geminiSocket # "open") => UNCHANGED relay ]_vars

\* C32 witness: after setup completion the upstream socket failed or closed,
\* a well-formed client message arrived on the open client socket, and only
\* the setup message has gone upstream.
C32_Witness ==
  /\ last.ev = "client_message"
  /\ Forwardable(last.data)
  /\ isSetupComplete
  /\ clientSocket = "open"
  /\ geminiSocket \in {"failed", "closed"}
  /\ Len(toGemini) = 1

\* the messages the upstream handler sends for the message it has just
\* handled
SendsOf(data, flag) == GeminiOnMessage(data, flag).out

\* C33: a handler of the upstream socket calls clientSocket.send only while
\* the client socket is open: the onmessage handler that sends something
\* (also one resumed after reading a Blob), the onerror handler and the
\* onclose handler that sends disconnected all run with the client socket
\* open.
C33_NoSendOnClientNotOpen ==
  [][ /\ (GeminiStep /\ SendsOf(last'.data, isSetupComplete) # <<>>)
           => clientSocket = "open"
      /\ (last' # last /\ last'.ev = "gemini_error") => clientSocket = "open"
      /\ toClient' # toClient => clientSocket = "open" ]_vars

\* C34: disconnected is the last message the relay sends to a client: no
\* message follows it on the connection.
C34_NothingAfterDisconnected ==
  \A i \in 1..Len(toClient) :
    toClient[i].type = "disconnected" => i = Len(toClient)

MaxCalls == 3

MaxCaptures == 3

MaxScreenshotsChoices == {0, 2}

\* how a call of startRecording ends: getDisplayMedia / getUserMedia
\* rejects, video.play() rejects, new MediaRecorder throws, or the recording
\* is started
StartOutcomes == {"denied", "playFails", "recorderFails", "ok"}

NoneAcquired == [streams |-> {}, recorders |-> {}]

InitRecording ==
  /\ NoRelay
  /\ \E max \in MaxScreenshotsChoices :
       hook = [maxScreenshots |-> max,
               streams |-> <<>>, recorders |-> <<>>, onended |-> {},
               streamRef |-> 0, audioStreamRef |-> 0,
               mediaRecorderRef |-> 0, audioRecorderRef |-> 0,
               videoRef |-> FALSE, canvasRef |-> FALSE,
               isRecordingRef |-> FALSE,
               timers |-> {}, nextTimer |-> 1, timeouts |-> 0,
               durationIntervalRef |-> 0, screenshotIntervalRef |-> 0,
               isRecording |-> FALSE, isPaused |-> FALSE, error |-> FALSE,
               screenshots |-> <<>>, taken |-> 0,
               promises |-> <<>>, acquired |-> NoneAcquired,
               calls |-> 0, ev |-> "mount"]

\* Array.prototype.shift
Shift(list) == IF list = <<>> THEN list ELSE Tail(list)

\* (a captureScreenshot that never evicts)
CaptureScreenshot_NoEviction(h) ==
  IF h.streamRef = 0 \/ ~h.videoRef \/ ~h.canvasRef THEN h
  ELSE [h EXCEPT !.taken = h.taken + 1,
                 !.screenshots = Append(h.screenshots, h.taken + 1)]

\* captureScreenshot: the captures of a recording are numbered 1, 2, ...
CaptureScreenshot(h) ==
  IF h.streamRef = 0 \/ ~h.videoRef \/ ~h.canvasRef THEN h
  ELSE [h EXCEPT !.taken = h.taken + 1,
                 !.screenshots =
                   Append(IF Len(h.screenshots) >= h.maxScreenshots
                            THEN Shift(h.screenshots) ELSE h.screenshots,
                          h.taken + 1)]

\* clearInterval
ClearInterval(timers, id) == { t \in timers : t.id # id }

NewRecorder == [state |-> "recording", onstop |-> 0, stopEvent |-> FALSE]

\* startRecording, up to the outcome given
StartRecordingTo(h, outcome, mic) ==
  IF outcome = "denied"
    THEN [h EXCEPT !.error = TRUE, !.acquired = NoneAcquired,
                   !.ev = "start_failed"]
  ELSE
    LET s   == Len(h.streams) + 1
        ar  == Len(h.recorders) + 1
        h1  == [h EXCEPT !.error = FALSE,
                         !.streams = Append(h.streams, TRUE),
                         !.streamRef = s,
                         !.screenshots = <<>>, !.taken = 0,
                         !.isRecordingRef = TRUE]
        h2  == IF mic
                 THEN [h1 EXCEPT !.streams = Append(h1.streams, TRUE),
                                 !.audioStreamRef = s + 1,
                                 !.recorders = Append(h1.recorders, NewRecorder),
                                 !.audioRecorderRef = ar]
                 ELSE h1
        acq == [streams |-> IF mic THEN {s, s + 1} ELSE {s},
                recorders |-> IF mic THEN {ar} ELSE {}]
        h3  == [h2 EXCEPT !.videoRef = TRUE, !.canvasRef = TRUE]
        mr  == Len(h3.recorders) + 1
        t   == h3.nextTimer
    IN IF outcome = "playFails"
         THEN [h2 EXCEPT !.error = TRUE, !.acquired = acq,
                         !.ev = "start_failed"]
       ELSE IF outcome = "recorderFails"
         THEN [h3 EXCEPT !.error = TRUE, !.acquired = acq,
                         !.ev = "start_failed"]
       ELSE [h3 EXCEPT
               !.recorders = Append(h3.recorders, NewRecorder),
               !.mediaRecorderRef = mr,
               !.onended = h3.onended \cup {s},
               !.timers = h3.timers \cup {[id |-> t, kind |-> "duration"],
                                          [id |-> t + 1, kind |-> "screenshot"]},
               !.durationIntervalRef = t,
               !.screenshotIntervalRef = t + 1,
               !.nextTimer = t + 2,
               !.timeouts = h3.timeouts + 1,
               !.isRecording = TRUE, !.isPaused = FALSE,
               !.acquired = [acq EXCEPT !.recorders = acq.recorders \cup {mr}],
               !.ev = "started"]

\* stopRecordingInternal: the promise it returns is the next of promises.
\* MediaRecorder.stop() on an inactive recorder does nothing or throws,
\* depending on the browser; a throw rejects the promise.
StopRecordingInternal(h, by, throws) ==
  IF h.mediaRecorderRef = 0 \/ h.streamRef = 0
    THEN [h EXCEPT !.promises = Append(h.promises, [by |-> by, status |-> "null"]),
                   !.ev = "stop"]
  ELSE
    LET p  == Len(h.promises) + 1
        c  == CaptureScreenshot([h EXCEPT !.isRecordingRef = FALSE])
        mr == h.mediaRecorderRef
        ar == h.audioRecorderRef
        inactive == h.recorders[mr].state = "inactive"
    IN [c EXCEPT
          !.timers = ClearInterval(ClearInterval(h.timers, h.durationIntervalRef),
                                   h.screenshotIntervalRef),
          !.durationIntervalRef = 0,
          !.screenshotIntervalRef = 0,
          !.recorders =
            [r \in DOMAIN h.recorders |->
               IF r = mr
                 THEN [state |-> "inactive", onstop |-> p,
                       stopEvent |-> h.recorders[r].stopEvent \/ ~inactive]
               ELSE IF r = ar
                 THEN [h.recorders[r] EXCEPT !.state = "inactive"]
               ELSE h.recorders[r]],
          !.promises = Append(h.promises,
                              [by |-> by,
                               status |-> IF inactive /\ throws THEN "rejected"
                                          ELSE "pending"]),
          !.ev = "stop"]

\* whether MediaRecorder.stop() may throw: only on an inactive recorder
StopOutcomes(h) ==
  IF /\ h.mediaRecorderRef # 0
     /\ h.streamRef # 0
     /\ h.recorders[h.mediaRecorderRef].state = "inactive"
    THEN BOOLEAN ELSE {FALSE}

StartRecording ==
  /\ hook.calls < MaxCalls
  /\ \E outcome \in StartOutcomes, mic \in BOOLEAN :
       hook' = [StartRecordingTo(hook, outcome, mic) EXCEPT !.calls = hook.calls + 1]
  /\ UNCHANGED relaySide

StopRecording ==
  /\ hook.calls < MaxCalls
  /\ \E throws \in StopOutcomes(hook) :
       hook' = [StopRecordingInternal(hook, "stopRecording", throws)
                  EXCEPT !.calls = hook.calls + 1]
  /\ UNCHANGED relaySide

\* videoTrack.onended of a capture stream: the user stopped sharing
OnEnded ==
  /\ \E s \in hook.onended :
       /\ hook.streams[s]
       /\ \E throws \in StopOutcomes(hook) :
            LET h == [hook EXCEPT !.onended = hook.onended \ {s},
                                  !.ev = "ended"]
            IN hook' = IF hook.isRecordingRef
                         THEN StopRecordingInternal(h, "onended", throws)
                         ELSE h
  /\ UNCHANGED relaySide

\* the stop event of a recorder: the onstop handler registered last runs
OnRecorderStop ==
  /\ \E r \in DOMAIN hook.recorders :
       /\ hook.recorders[r].stopEvent
       /\ LET p == hook.recorders[r].onstop
              released == {hook.streamRef, hook.audioStreamRef}
          IN hook' = [hook EXCEPT
               !.recorders[r].stopEvent = FALSE,
               !.streams = [s \in DOMAIN hook.streams |->
                              hook.streams[s] /\ s \notin released],
               !.videoRef = FALSE,
               !.streamRef = 0, !.audioStreamRef = 0,
               !.mediaRecorderRef = 0, !.audioRecorderRef = 0,
               !.isRecording = FALSE, !.isPaused = FALSE, !.error = FALSE,
               !.promises[p].status =
                 IF hook.promises[p].status = "pending" THEN "result"
                 ELSE hook.promises[p].status,
               !.ev = "stopped"]
  /\ UNCHANGED relaySide

PauseRecording ==
  /\ hook.calls < MaxCalls
  /\ LET mr == hook.mediaRecorderRef
         ar == hook.audioRecorderRef
         h  == [hook EXCEPT !.calls = hook.calls + 1, !.ev = "pause"]
     IN hook' =
          IF mr # 0 /\ hook.recorders[mr].state = "recording"
            THEN [h EXCEPT
                    !.recorders =
                      [r \in DOMAIN hook.recorders |->
                         IF r = mr \/ (r = ar /\ hook.recorders[r].state = "recording")
                           THEN [hook.recorders[r] EXCEPT !.state = "paused"]
                           ELSE hook.recorders[r]],
                    !.timers = ClearInterval(
                                 ClearInterval(hook.timers, hook.durationIntervalRef),
                                 hook.screenshotIntervalRef),
                    !.isPaused = TRUE]
            ELSE h
  /\ UNCHANGED relaySide

ResumeRecording ==
  /\ hook.calls < MaxCalls
  /\ LET mr == hook.mediaRecorderRef
         ar == hook.audioRecorderRef
         t  == hook.nextTimer
         h  == [hook EXCEPT !.calls = hook.calls + 1, !.ev = "resume"]
     IN hook' =
          IF mr # 0 /\ hook.recorders[mr].state = "paused"
            THEN [h EXCEPT
                    !.recorders =
                      [r \in DOMAIN hook.recorders |->
                         IF r = mr \/ (r = ar /\ hook.recorders[r].state = "paused")
                           THEN [hook.recorders[r] EXCEPT !.state = "recording"]
                           ELSE hook.recorders[r]],
                    !.timers = hook.timers \cup
                                 {[id |-> t, kind |-> "duration"],
                                  [id |-> t + 1, kind |-> "screenshot"]},
                    !.durationIntervalRef = t,
                    !.screenshotIntervalRef = t + 1,
                    !.nextTimer = t + 2,
                    !.isPaused = FALSE]
            ELSE h
  /\ UNCHANGED relaySide

\* the periodic screenshot timer fires
OnScreenshotInterval ==
  /\ hook.taken < MaxCaptures
  /\ \E t \in hook.timers : t.kind = "screenshot"
  /\ hook' = [CaptureScreenshot(hook) EXCEPT !.ev = "capture"]
  /\ UNCHANGED relaySide

\* the timeout of the initial screenshot fires
OnInitialTimeout ==
  /\ hook.timeouts > 0
  /\ hook.taken < MaxCaptures
  /\ hook' = [CaptureScreenshot(hook) EXCEPT !.timeouts = hook.timeouts - 1,
                                             !.ev = "capture"]
  /\ UNCHANGED relaySide

CaptureScreenshotNow ==
  /\ hook.taken < MaxCaptures
  /\ hook.streamRef # 0
  /\ hook' = [CaptureScreenshot(hook) EXCEPT !.ev = "capture"]
  /\ UNCHANGED relaySide

NextRecording ==
  \/ StartRecording
  \/ StopRecording
  \/ OnEnded
  \/ OnRecorderStop
  \/ PauseRecording
  \/ ResumeRecording
  \/ OnScreenshotInterval
  \/ OnInitialTimeout
  \/ CaptureScreenshotNow

SpecRecording == InitRecording /\ [][NextRecording]_vars

\* the capture numbers from..to in order
Range(from, to) == [i \in 1..(to - from + 1) |-> from + i - 1]

C37_StopPromisesResolve ==
  \A p \in 1..Len(hook.promises) :
    hook.promises[p].by = "stopRecording"
      => \/ hook.promises[p].status \in {"null", "result"}
         \/ /\ hook.promises[p].status = "pending"
            /\ \E r \in DOMAIN hook.recorders :
                 /\ hook.recorders[r].onstop = p
                 /\ hook.recorders[r].stopEvent

\* C38: when startRecording has failed, no stream it acquired is live and
\* no recorder it created is active; when a stop has completed, every
\* stream is stopped, no timer is active and every handle is null.
C38_ReleasedOnEveryExit ==
  /\ hook.ev = "start_failed"
       => /\ \A s \in hook.acquired.streams : ~hook.streams[s]
          /\ \A r \in hook.acquired.recorders :
               hook.recorders[r].state = "inactive"
  /\ hook.ev = "stopped"
       => /\ \A s \in DOMAIN hook.streams : ~hook.streams[s]
          /\ hook.timers = {}
          /\ hook.streamRef = 0 /\ hook.audioStreamRef = 0
          /\ hook.mediaRecorderRef = 0 /\ hook.audioRecorderRef = 0
          /\ hook.durationIntervalRef = 0 /\ hook.screenshotIntervalRef = 0

\* C39: at most one duration timer and at most one screenshot timer are
\* active, and none while the recording is paused or not recording.
C39_OneTimerOfEachKind ==
  /\ \A kind \in {"duration", "screenshot"} :
       Cardinality({ t \in hook.timers : t.kind = kind }) <= 1
  /\ (hook.isPaused \/ ~hook.isRecording) => hook.timers = {}

====
